---- MODULE Spec2Model ----
(***************************************************************************)
(* lsphere: a model of renderSvgFromSnapshot (src/src/render/svg.ts), the  *)
(* function that turns a scanned directory tree into the circle-packing    *)
(* SVG document, and of the command-line action that calls it              *)
(* (src/src/cli.ts) and the scanner that builds the tree                   *)
(* (src/unnamed/part_003), and of the template loader                      *)
(* (src/unnamed/part_001).  Each has its own specification: Spec for the   *)
(* renderer, CliSpec for the command line, ScanSpec for the scanner and    *)
(* TemplateSpec for the template loader; the variables of the others stay  *)
(* as they are at rest.                                                    *)
(*                                                                         *)
(* Strings are sequences of UTF-16 code units, so that string comparison,  *)
(* concatenation and lower-casing are computed on the characters.          *)
(*                                                                         *)
(* A tree (snapshot.tree) is a sequence of node records numbered in        *)
(* document order: node 1 is the root directory, parent[i] < i, and the    *)
(* children of a directory are the nodes that name it as parent, in        *)
(* increasing number.                                                      *)
(***************************************************************************)
EXTENDS Integers, Sequences, FiniteSets, TLC

VARIABLES
    tree,            \* snapshot.tree
    options,         \* options: palette, extColors, bgColor, noFolders
    generatedAt,     \* snapshot.meta.generatedAt of the current invocation
    packGeom,        \* the geometry d3's pack() computes for this tree
    pc,              \* position inside renderSvgFromSnapshot
    calls,           \* number of invocations started so far
    packed,          \* packed: per node, value and squared radius
    queue,           \* nodes of packed.descendants() not yet visited
    scaleDomain,     \* fileColorScale's domain (grows on first sight of a key)
    extColorMap,     \* extColorMap, as <<ext, color>> pairs in insertion order
    layerCircles,    \* layerCircles
    layerFileLabels, \* layerFileLabels
    layerDirLabels,  \* layerDirLabels, as [r, chunk] records
    legendGroup,     \* the legend rows, in emitted order
    svg,             \* the returned document, as a sequence of elements
    prevSvg,         \* the document the previous invocation returned
    raw,             \* cli: the flags commander hands to the action (RawCLI)
    cliOptions,      \* cli: what resolveOptions returned
    target,          \* cli: what is at options.targetPath
    templateResult,  \* cli: how loadTemplate ends, 0 or its exit code
    cliPc,           \* cli: position inside the action
    outDirCreated,   \* cli: mkdirSync(outDir) has run
    written,         \* cli: the files written, in order
    exitCode,        \* cli: the process's exit code, -1 while it runs
    fs,              \* scan: the filesystem at and below options.targetPath
    lsignore,        \* scan: the patterns in the ignore file
    scanOptions,     \* scan: depth, dirsOnly, ignoreFile, ignorePatterns
    scanPc,          \* scan: position inside scanDirectory
    stack,           \* scan: the calls of scanDirRecursive in progress
    scanned,         \* scan: the nodes created so far, in creation order
    readDirs,        \* scan: the entries handed to readdirSync, in order
    tplCalls,        \* template: the calls of loadTemplate, one per run
    cacheDir,        \* template: whether the cache directory exists
    cache,           \* template: per URL, the cached body or Absent
    tplLog           \* template: cache and network operations, in order

renderVars == <<tree, options, generatedAt, packGeom, pc, calls, packed, queue,
                scaleDomain, extColorMap, layerCircles, layerFileLabels,
                layerDirLabels, legendGroup, svg, prevSvg>>

cliVars == <<raw, cliOptions, target, templateResult, cliPc, outDirCreated,
             written, exitCode>>

scanVars == <<fs, lsignore, scanOptions, scanPc, stack, scanned, readDirs>>

tplVars == <<tplCalls, cacheDir, cache, tplLog>>

vars == <<renderVars, cliVars, scanVars, tplVars>>

(***************************************************************************)
(* Bounds of the model.                                                    *)
(***************************************************************************)
MaxNodes == 3       \* nodes below the root in the enumerated trees
MaxExp == 2         \* file sizes are 0 and the powers of two up to 2^MaxExp
MaxWide == 12       \* files in the widest flat tree
MaxRenders == 2     \* invocations of the renderer in one behaviour
MaxEntries == 3     \* entries below the target directory in the filesystem
MaxDepth == 2       \* the largest options.depth
MaxCalls == 2       \* the number of calls of loadTemplate
MaxNameLen == 30    \* the length of the longest directory name

(***************************************************************************)
(* Sequence helpers.                                                       *)
(***************************************************************************)
Range(s) == { s[i] : i \in DOMAIN s }

RECURSIVE SeqSum(_)
SeqSum(s) == IF s = <<>> THEN 0 ELSE Head(s) + SeqSum(Tail(s))

RECURSIVE Concat(_)
Concat(ss) == IF ss = <<>> THEN <<>> ELSE Head(ss) \o Concat(Tail(ss))

\* position of the first occurrence of x in s, 0 when absent
IndexOf(s, x) ==
    IF x \in Range(s) THEN CHOOSE i \in DOMAIN s : s[i] = x /\ \A j \in 1..(i-1) : s[j] # x
    ELSE 0

Max(a, b) == IF a >= b THEN a ELSE b
Min(a, b) == IF a <= b THEN a ELSE b

RECURSIVE Pow2(_)
Pow2(e) == IF e = 0 THEN 1 ELSE 2 * Pow2(e - 1)

RECURSIVE Log2(_)
Log2(n) == IF n <= 1 THEN 0 ELSE 1 + Log2(n \div 2)

\* s < t in the order of JavaScript's string comparison (by code unit)
RECURSIVE StrLess(_, _)
StrLess(s, t) ==
    IF t = <<>> THEN FALSE
    ELSE IF s = <<>> THEN TRUE
    ELSE IF Head(s) # Head(t) THEN Head(s) < Head(t)
    ELSE StrLess(Tail(s), Tail(t))

(***************************************************************************)
(* Nodes (src/src/core/model.ts).                                          *)
(***************************************************************************)
DirNode(name, parent) ==
    [kind |-> "dir", name |-> name, ext |-> <<>>, size |-> 0, parent |-> parent]

FileNode(name, ext, size, parent) ==
    [kind |-> "file", name |-> name, ext |-> ext, size |-> size, parent |-> parent]

Nodes(t) == DOMAIN t
Files(t) == { i \in DOMAIN t : t[i].kind = "file" }
Dirs(t) == { i \in DOMAIN t : t[i].kind = "dir" }

\* d.children, in order
Children(t, p) == SelectSeq([i \in 1..Len(t) |-> i], LAMBDA i : t[i].parent = p)

RECURSIVE Depth(_, _)
Depth(t, i) == IF t[i].parent = 0 THEN 0 ELSE 1 + Depth(t, t[i].parent)

RECURSIVE Ancestors(_, _)
Ancestors(t, i) == IF t[i].parent = 0 THEN {} ELSE {t[i].parent} \cup Ancestors(t, t[i].parent)

(***************************************************************************)
(* Input trees.  scanDirRecursive lists the entries of each directory      *)
(* directories first, then files, each group in ascending name order, and  *)
(* gives a file the extension extOf(name); the enumerated trees are such   *)
(* trees.  The names use lower-case letters, '.' and '+', for which        *)
(* localeCompare and the code-unit order agree.                            *)
(***************************************************************************)
RootName == <<114>>                                        \* "r"
DirNames == { <<100>>, <<101>> }                           \* "d", "e"
FileNames == { <<97>>, <<98>>, <<97, 46, 99>>, <<97, 46, 99, 43>> }
                                                           \* "a", "b", "a.c", "a.c+"
Sizes == {0} \cup { Pow2(e) : e \in 0..MaxExp }

\* path.extname: from the last '.' to the end, "" when there is none or the
\* name starts with its only '.'
LastDot(name) ==
    IF 46 \in Range(name)
    THEN CHOOSE i \in DOMAIN name : name[i] = 46 /\ \A j \in (i+1)..Len(name) : name[j] # 46
    ELSE 0

extOf(name) ==
    IF LastDot(name) <= 1 THEN <<>> ELSE SubSeq(name, LastDot(name), Len(name))

\* the entries sort of scanDirRecursive: a comes before b
EntryBefore(a, b) ==
    \/ a.kind = "dir" /\ b.kind = "file"
    \/ a.kind = b.kind /\ StrLess(a.name, b.name)

\* the directories a node appended to t may be put in: the last node if it is
\* a directory, and the ancestors of the last node
OpenDirs(t) ==
    (IF t[Len(t)].kind = "dir" THEN {Len(t)} ELSE {}) \cup Ancestors(t, Len(t))

LastChild(t, p) == Children(t, p)[Len(Children(t, p))]

CanAppend(t, nd) ==
    /\ nd.parent \in OpenDirs(t)
    /\ Children(t, nd.parent) # <<>> => EntryBefore(t[LastChild(t, nd.parent)], nd)

NewNodes(t, dirNames, fileNames, sizes) ==
    { DirNode(n, p) : n \in dirNames, p \in OpenDirs(t) }
        \cup { FileNode(n, extOf(n), s, p) : n \in fileNames, s \in sizes, p \in OpenDirs(t) }

\* the trees of at most k nodes below the root
RECURSIVE TreesUpTo(_, _, _, _)
TreesUpTo(k, dirNames, fileNames, sizes) ==
    IF k = 0 THEN { <<DirNode(RootName, 0)>> }
    ELSE LET smaller == TreesUpTo(k - 1, dirNames, fileNames, sizes)
         IN  smaller \cup
             { Append(c[1], c[2]) : c \in
                 { c \in UNION { {t} \X NewNodes(t, dirNames, fileNames, sizes) : t \in smaller } :
                       CanAppend(c[1], c[2]) } }

\* every shape, name and extension, files of one byte
ShapeTrees == TreesUpTo(MaxNodes, DirNames, FileNames, {1})

\* every size: the flat trees of the files "a", "b", "a.c"
SizedFileNames == { <<97>>, <<98>>, <<97, 46, 99>> }
SizedTrees == TreesUpTo(MaxNodes, {}, SizedFileNames, Sizes)

\* a flat tree of k files "a.e", "a.f", ... with k distinct extensions
WideName(i) == <<97, 46, 100 + i>>
WideTree(k) ==
    [i \in 1..(k + 1) |->
        IF i = 1 THEN DirNode(RootName, 0)
        ELSE FileNode(WideName(i - 1), extOf(WideName(i - 1)), 1, 1)]
WideTrees == { WideTree(MaxWide) }

\* a tree whose names hold the five characters escapeXml replaces
SpecialDirName == <<60, 100, 62>>                          \* "<d>"
SpecialFileName == <<97, 39, 98, 46, 99, 38, 34>>          \* "a'b.c&" and a double quote
EscapeTree ==
    << DirNode(RootName, 0),
       DirNode(SpecialDirName, 1),
       FileNode(SpecialFileName, extOf(SpecialFileName), 1, 2) >>
EscapeTrees == { EscapeTree }

\* a tree with a directory whose name, "dd...d", is wider than its rim
LongDirName == [i \in 1..MaxNameLen |-> 100]
LongTree ==
    << DirNode(RootName, 0),
       DirNode(LongDirName, 1),
       FileNode(<<97>>, <<>>, 1, 2) >>
LongTrees == { LongTree }

InputTrees == ShapeTrees \cup SizedTrees \cup WideTrees \cup EscapeTrees \cup LongTrees

(***************************************************************************)
(* Options (the fields renderSvgFromSnapshot reads).  extColors maps an    *)
(* extension to a non-empty colour string, as parseExtColors builds it.    *)
(***************************************************************************)
NoExtColors == [e \in {} |-> <<>>]
Red == <<35, 102, 48, 48>>                                  \* "#f00"
SomeExtColors == [e \in { <<46, 99>>, <<46, 103>> } |-> Red]   \* ".c", ".g"
ExtColorChoices == { NoExtColors, SomeExtColors }

PaletteDefault == <<100, 101, 102, 97, 117, 108, 116>>      \* "default"
PaletteDark2 == <<68, 97, 114, 107, 50>>                    \* "Dark2"
PaletteChoices == { PaletteDefault, PaletteDark2 }

BgWhite == <<35, 102, 102, 102, 102, 102, 102>>             \* "#ffffff"
MetaRoot == <<47, 60, 38, 62, 47, 114>>                     \* "/<&>/r"

\* noFolders: directory names are to be hidden (resolveOptions, --no-dirs)
Options(p, x, n) == [palette |-> p, extColors |-> x, bgColor |-> BgWhite, noFolders |-> n]

\* the trees of every shape are rendered with and without overrides and with
\* directory names shown and hidden, the wide trees also with both palettes,
\* the other trees with the defaults of resolveOptions
OptionsFor(t) ==
    IF t \in WideTrees
    THEN { Options(p, x, FALSE) : p \in PaletteChoices, x \in ExtColorChoices }
    ELSE IF t \in ShapeTrees
    THEN { Options(PaletteDefault, x, FALSE) : x \in ExtColorChoices }
             \cup { Options(PaletteDefault, NoExtColors, TRUE) }
    ELSE { Options(PaletteDefault, NoExtColors, FALSE) }

(***************************************************************************)
(* pickD3Scheme.  A scheme of d3-scale-chromatic is modelled by its name   *)
(* and length; its i-th colour is the string "#", the scheme's name, the   *)
(* i-th letter of the alphabet.                                            *)
(***************************************************************************)
toLowerCase(s) == [i \in DOMAIN s |-> IF s[i] \in 65..90 THEN s[i] + 32 ELSE s[i]]

SchemeOf(name, len) == [i \in 1..len |-> <<35>> \o name \o <<96 + i>>]

schemeCategory10 == SchemeOf(<<99, 97, 116, 101, 103, 111, 114, 121, 49, 48>>, 10)
schemeTableau10 == SchemeOf(<<116, 97, 98, 108, 101, 97, 117, 49, 48>>, 10)
schemeSet3 == SchemeOf(<<115, 101, 116, 51>>, 12)
schemePaired == SchemeOf(<<112, 97, 105, 114, 101, 100>>, 12)
schemeDark2 == SchemeOf(<<100, 97, 114, 107, 50>>, 8)
schemeAccent == SchemeOf(<<97, 99, 99, 101, 110, 116>>, 8)
schemePastel1 == SchemeOf(<<112, 97, 115, 116, 101, 108, 49>>, 9)
schemePastel2 == SchemeOf(<<112, 97, 115, 116, 101, 108, 50>>, 8)
schemeSet1 == SchemeOf(<<115, 101, 116, 49>>, 9)
schemeSet2 == SchemeOf(<<115, 101, 116, 50>>, 8)

pickD3Scheme(name) ==
    LET n == toLowerCase(name)
    IN  CASE n = <<99, 97, 116, 101, 103, 111, 114, 121, 49, 48>> -> schemeCategory10
          [] n = <<116, 97, 98, 108, 101, 97, 117, 49, 48>> -> schemeTableau10
          [] n = <<115, 101, 116, 51>> -> schemeSet3
          [] n = <<112, 97, 105, 114, 101, 100>> -> schemePaired
          [] n = <<100, 97, 114, 107, 50>> -> schemeDark2
          [] n = <<97, 99, 99, 101, 110, 116>> -> schemeAccent
          [] n = <<112, 97, 115, 116, 101, 108, 49>> -> schemePastel1
          [] n = <<112, 97, 115, 116, 101, 108, 50>> -> schemePastel2
          [] n = <<115, 101, 116, 49>> -> schemeSet1
          [] n = <<115, 101, 116, 50>> -> schemeSet2
          [] OTHER -> schemeTableau10

(***************************************************************************)
(* The weight scale (svg.ts 30-45).  The sizes are 0 and powers of two,    *)
(* so Log2 is exact on every size; sMax = sMin + 1 is not a power of two   *)
(* only when all sizes are equal, and then every numerator is 0.  A weight *)
(* is the rational weightNum / WeightDen, in [1, 100].                     *)
(***************************************************************************)
RangeLo == 1
RangeHi == 100

\* sizes, as walk() collects them
FileSizes(t) ==
    LET files == SelectSeq([i \in 1..Len(t) |-> i], LAMBDA i : t[i].kind = "file")
    IN  [k \in 1..Len(files) |-> Max(1, t[files[k]].size)]

RECURSIVE SeqMin(_)
SeqMin(s) == IF Len(s) = 1 THEN s[1] ELSE Min(Head(s), SeqMin(Tail(s)))
RECURSIVE SeqMax(_)
SeqMax(s) == IF Len(s) = 1 THEN s[1] ELSE Max(Head(s), SeqMax(Tail(s)))

sMin(t) == IF Len(FileSizes(t)) > 0 THEN Max(1, SeqMin(FileSizes(t))) ELSE 1
\* the largest size as observed, not widened
sMaxObserved(t) == IF Len(FileSizes(t)) > 0 THEN SeqMax(FileSizes(t)) ELSE sMin(t)

sMax(t) == IF Len(FileSizes(t)) > 0 THEN Max(sMin(t) + 1, SeqMax(FileSizes(t))) ELSE sMin(t) + 1

\* log(sMax) - log(sMin), in units of log 2 (1 stands for any positive
\* difference when all sizes are equal: it only ever divides 0)
WeightDen(t) == Max(1, Log2(sMax(t)) - Log2(sMin(t)))

\* the scale with its range reversed
weightNumReversed(t, x) ==
    LET clamped == Max(sMin(t), Min(sMax(t), x))
        num == Log2(clamped) - Log2(sMin(t))
    IN  RangeHi * WeightDen(t) - (RangeHi - RangeLo) * num

\* scaleLog().domain([sMin, sMax]).range([1, 100]).clamp(true), times WeightDen
weightNum(t, x) ==
    LET clamped == Max(sMin(t), Min(sMax(t), x))
        num == Log2(clamped) - Log2(sMin(t))
    IN  RangeLo * WeightDen(t) + (RangeHi - RangeLo) * num

\* root.sum(...): node.value, times WeightDen
RECURSIVE Value(_, _)
Value(t, i) ==
    IF t[i].kind = "file" THEN weightNum(t, Max(1, t[i].size))
    ELSE LET ch == Children(t, i)
         IN  SeqSum([k \in 1..Len(ch) |-> Value(t, ch[k])])

(***************************************************************************)
(* The layout (svg.ts 60-62).  pack() is d3-hierarchy's; the model takes   *)
(* from it that a leaf's radius is k * sqrt(value) for one scale k of the  *)
(* whole layout, and that a directory's circle is larger than the circles  *)
(* inside it.  hierarchy() gives a directory with an empty children array  *)
(* no children, so pack() lays it out as a leaf of value 0: radius 0.  A   *)
(* directory that holds only such directories is as wide as the padding    *)
(* around them, below the label threshold.  In a tree without files every  *)
(* leaf has radius 0, so has the root, and the scale min(w, h) / (2 * 0)   *)
(* is Infinity: every radius, 0 * Infinity, is NaN.  The scale and the     *)
(* radii of the other directories are what pack() computes for the tree:   *)
(* fixed per tree, drawn with the input.  A radius is kept as rr, its      *)
(* square times WeightDen.                                                 *)
(***************************************************************************)
NaN == -1                     \* stands for the radius NaN
KSqs == { 4, 144, 169 }       \* k squared
DirRadii == { 12, 20, 30 }    \* radii of the directories that enclose files
PaddingRadius == 8            \* radius of a directory that encloses only padding

\* the scales of a tree: the one that puts a file on the label threshold is
\* drawn for the trees of files of every size
KSqsOf(t) == IF t \in SizedTrees THEN KSqs ELSE KSqs \ {144}

\* the radii pack() can give the directory i of a tree that has files
DirRadiiOf(t, i) ==
    IF Children(t, i) = <<>> THEN {0}
    ELSE IF Value(t, i) = 0 THEN {PaddingRadius}
    ELSE DirRadii

FileRR(t, g, i) == Value(t, i) * g.kSq
DirRR(t, g, i) == g.dirR[i] * g.dirR[i] * WeightDen(t)
NodeRR(t, g, i) ==
    IF Files(t) = {} THEN NaN
    ELSE IF t[i].kind = "file" THEN FileRR(t, g, i)
    ELSE DirRR(t, g, i)

Geometries(t) ==
    IF Files(t) = {}
    THEN { [kSq |-> NaN, dirR |-> [i \in Dirs(t) \ {1} |-> NaN]] }
    ELSE { g \in [kSq : KSqsOf(t), dirR : [Dirs(t) \ {1} -> DirRadii \cup {0}]] :
             /\ \A i \in Dirs(t) \ {1} : g.dirR[i] \in DirRadiiOf(t, i)
             /\ \A i \in DOMAIN t :
                    t[i].parent > 1 => NodeRR(t, g, i) < DirRR(t, g, t[i].parent) }

\* layout(root): x, y are not modelled
Pack(t, g) ==
    [i \in DOMAIN t |-> [value |-> Value(t, i),
                         rr |-> IF i = 1 THEN 0 ELSE NodeRR(t, g, i)]]

\* r >= bound
RadiusAtLeast(t, rr, bound) == rr # NaN /\ rr >= bound * bound * WeightDen(t)

\* r > bound, for a radius kept as rr; NaN > bound is false
RadiusAbove(t, rr, bound) == rr # NaN /\ rr > bound * bound * WeightDen(t)

\* the nodes in depth-first pre-order, a directory's subtree before its next
\* sibling
RECURSIVE PreOrder(_, _)
PreOrder(t, i) ==
    <<i>> \o Concat([k \in 1..Len(Children(t, i)) |-> PreOrder(t, Children(t, i)[k])])

descendantsPreOrder(t) == PreOrder(t, 1)

\* packed.descendants(): d3's node iterator, breadth-first, level by level
RECURSIVE Levels(_, _)
Levels(t, level) ==
    IF level = <<>> THEN <<>>
    ELSE level \o Levels(t, Concat([k \in 1..Len(level) |-> Children(t, level[k])]))

descendants(t) == Levels(t, <<1>>)

(***************************************************************************)
(* Utilities (svg.ts 200-222).                                             *)
(***************************************************************************)
escapeChar(c) ==
    IF c = 60 THEN <<38, 108, 116, 59>>                     \* "&lt;"
    ELSE IF c = 62 THEN <<38, 103, 116, 59>>                \* "&gt;"
    ELSE IF c = 38 THEN <<38, 97, 109, 112, 59>>            \* "&amp;"
    ELSE IF c = 34 THEN <<38, 113, 117, 111, 116, 59>>      \* "&quot;"
    ELSE <<38, 35, 51, 57, 59>>                             \* "&#39;"

\* a replacement that leaves '&' as it is
escapeXmlKeepAmp(s) ==
    Concat([i \in DOMAIN s |-> IF s[i] \in {60, 62, 39, 34} THEN escapeChar(s[i]) ELSE <<s[i]>>])

\* s.replace(/[<>&'"]/g, ...)
escapeXml(s) ==
    Concat([i \in DOMAIN s |-> IF s[i] \in {60, 62, 38, 39, 34} THEN escapeChar(s[i]) ELSE <<s[i]>>])

(***************************************************************************)
(* Elements of the document.  An element is a record of what the code      *)
(* interpolates into it: the node it is drawn for (0 when none), the       *)
(* radius, the fill and the text content.                                  *)
(***************************************************************************)
Element(el, node, r, fill, text) ==
    [el |-> el, node |-> node, r |-> r, fill |-> fill, text |-> text]

White == <<35, 102, 102, 102>>                              \* "#fff"
None == <<110, 111, 110, 101>>                              \* "none"

(***************************************************************************)
(* Colours (svg.ts 47-58).                                                 *)
(***************************************************************************)
\* ext && options.extColors[ext]
HasOverride(opts, ext) ==
    /\ ext # <<>>
    /\ ext \in DOMAIN opts.extColors
    /\ opts.extColors[ext] # <<>>

\* a scale that stays on its last colour instead of wrapping
RangeAtNoWrap(range, i) == range[Min(i, Len(range) - 1) + 1]

\* d3 scaleOrdinal: range[i % range.length], i counted from 0
RangeAt(range, i) == range[(i % Len(range)) + 1]

\* fileColorScale(key) with an implicit domain: an unseen key is pushed
fileColorScale(domain, range, key) ==
    LET dom == IF key \in Range(domain) THEN domain ELSE Append(domain, key)
    IN  [color |-> RangeAt(range, IndexOf(dom, key) - 1), domain |-> dom]

\* a store that adds an entry on every call
MapSetAppend(m, k, v) == Append(m, <<k, v>>)

\* Map.prototype.set: a present key keeps its place
MapSet(m, k, v) ==
    IF \E i \in DOMAIN m : m[i][1] = k
    THEN [i \in DOMAIN m |-> IF m[i][1] = k THEN <<k, v>> ELSE m[i]]
    ELSE Append(m, <<k, v>>)

\* a key that is the extension, empty or not
ColorKeyExtOnly(ext, name) == ext

ColorKey(ext, name) == IF ext # <<>> THEN ext ELSE name

\* colorForFile asking the scale before it looks at the overrides
colorForFileEager(opts, domain, map, ext, name) ==
    LET c == fileColorScale(domain, pickD3Scheme(opts.palette), ColorKey(ext, name))
    IN  IF HasOverride(opts, ext)
        THEN [color |-> opts.extColors[ext], domain |-> c.domain, map |-> map]
        ELSE [color |-> c.color,
              domain |-> c.domain,
              map |-> IF ext # <<>> THEN MapSet(map, ext, c.color) ELSE map]

\* colorForFile recording every palette key, the name of an extensionless
\* file too
colorForFileKeyed(opts, domain, map, ext, name) ==
    IF HasOverride(opts, ext)
    THEN [color |-> opts.extColors[ext], domain |-> domain, map |-> map]
    ELSE LET c == fileColorScale(domain, pickD3Scheme(opts.palette), ColorKey(ext, name))
         IN  [color |-> c.color,
              domain |-> c.domain,
              map |-> MapSet(map, ColorKey(ext, name), c.color)]

\* colorForFile: the colour, and the scale's domain and extColorMap after it
colorForFile(opts, domain, map, ext, name) ==
    IF HasOverride(opts, ext)
    THEN [color |-> opts.extColors[ext], domain |-> domain, map |-> map]
    ELSE LET c == fileColorScale(domain, pickD3Scheme(opts.palette), ColorKey(ext, name))
         IN  [color |-> c.color,
              domain |-> c.domain,
              map |-> IF ext # <<>> THEN MapSet(map, ext, c.color) ELSE map]

(***************************************************************************)
(* One iteration of the loop over packed.descendants() (svg.ts 64-136).    *)
(***************************************************************************)
LabelMinR == 12

\* The rim stroke's gap (svg.ts 81-94).  Lengths are whole numbers of
\* 1/50000 px, font sizes whole quarters of a px; pi is taken as 3.1416.
Px(n) == n * 50000

\* clamp(min, max, v)
clamp(lo, hi, v) == Max(lo, Min(hi, v))

\* fontSize = clamp(9, 14, r / 4), in quarters of a px
DirFontSize(r) == clamp(36, 56, r)

\* estimateTextWidth: fontSize * 0.5 * text.length
estimateTextWidth(text, fontSize) == fontSize * Len(text) * 6250

\* gapPx = estimateTextWidth(name, fontSize) + 2 * labelPad
gapPx(name, r) == estimateTextWidth(name, DirFontSize(r)) + 2 * Px(10)

\* C = 2 * Math.PI * r
Circumference(r) == 314160 * r

\* a gap bounded from below only
gapAtLeast(name, r) == Max(gapPx(name, r), Px(10))

\* gapClamped = min(max(gapPx, 10), max(C * 0.45, 10))
gapClamped(name, r) ==
    Min(Max(gapPx(name, r), Px(10)), Max((Circumference(r) * 45) \div 100, Px(10)))

\* dashLeft = max(C - gapClamped, 0) / 2
dashLeft(name, r) == Max(Circumference(r) - gapClamped(name, r), 0) \div 2

\* stroke-dasharray: dashLeft, gapClamped, dashLeft
DashArray(name, r) == <<dashLeft(name, r), gapClamped(name, r), dashLeft(name, r)>>

\* the radius of a directory whose squared radius is kept as rr
RadiusOf(t, rr) == CHOOSE r \in DirRadii \cup {0, PaddingRadius} : r * r * WeightDen(t) = rr

\* a directory: the white fill, and above the threshold the rim stroke, whose
\* text is its stroke-dasharray
DirCircles(t, node, rr) ==
    <<Element("circle", node, rr, White, <<>>)>>
        \o (IF RadiusAbove(t, rr, LabelMinR)
            THEN <<Element("rim", node, rr, None,
                           DashArray(t[node].name, RadiusOf(t, rr)))>>
            ELSE <<>>)

\* a directory: the rim label, above the threshold
DirLabels(t, node, rr) ==
    IF RadiusAbove(t, rr, LabelMinR)
    THEN <<[r |-> rr, chunk |-> Element("dirLabel", node, rr, <<>>, escapeXml(t[node].name))]>>
    ELSE <<>>

\* a file: the label, above the threshold
FileLabels(t, node, rr) ==
    IF RadiusAbove(t, rr, LabelMinR)
    THEN <<Element("fileLabel", node, rr, <<>>, escapeXml(t[node].name))>>
    ELSE <<>>

(***************************************************************************)
(* The legend (svg.ts 138-171).  Array.prototype.sort without a comparator *)
(* orders the [ext, color] entries by their string form, "ext,color".      *)
(***************************************************************************)
CanvasH == 900
MarginBottom == 24
LegendRow == 18

EntryString(e) == e[1] \o <<44>> \o e[2]

\* the default sort order: a comes before b
EntryLess(a, b) == StrLess(EntryString(a), EntryString(b))

RECURSIVE InsertEntry(_, _)
InsertEntry(sorted, e) ==
    IF sorted = <<>> THEN <<e>>
    ELSE IF EntryLess(e, Head(sorted)) THEN <<e>> \o sorted
    ELSE <<Head(sorted)>> \o InsertEntry(Tail(sorted), e)

RECURSIVE SortEntries(_)
SortEntries(es) ==
    IF es = <<>> THEN <<>>
    ELSE InsertEntry(SortEntries(SubSeq(es, 1, Len(es) - 1)), es[Len(es)])

\* the rows: r carries the row's y
LegendRows(map) ==
    LET entries == SortEntries(map)
        count == Len(entries)
    IN  [idx \in 1..count |->
            Element("legendRow", 0,
                    (CanvasH - MarginBottom) - (count - idx) * LegendRow,
                    entries[idx][2], escapeXml(entries[idx][1]))]

(***************************************************************************)
(* Assembly (svg.ts 173-197).                                              *)
(***************************************************************************)
\* the comparator (a, b) => b.r - a.r is negative: a goes before b
DirLabelBefore(a, b) == b.r - a.r < 0

\* a stable sort by the comparator
RECURSIVE InsertDirLabel(_, _)
InsertDirLabel(sorted, d) ==
    IF sorted = <<>> THEN <<d>>
    ELSE IF DirLabelBefore(d, Head(sorted)) THEN <<d>> \o sorted
    ELSE <<Head(sorted)>> \o InsertDirLabel(Tail(sorted), d)

RECURSIVE SortDirLabels(_)
SortDirLabels(ds) ==
    IF ds = <<>> THEN <<>>
    ELSE InsertDirLabel(SortDirLabels(SubSeq(ds, 1, Len(ds) - 1)), ds[Len(ds)])

Chunks(ds) == [i \in DOMAIN ds |-> ds[i].chunk]

\* the layers pushed in another order: labels under the circles
DocumentLabelsFirst(opts, metaRoot, circles, fileLabels, dirLabels, legend) ==
    << Element("xml", 0, 0, <<>>, <<>>),
       Element("svgOpen", 0, 0, <<>>, <<>>),
       Element("rect", 0, 0, opts.bgColor, <<>>),
       Element("title", 0, 0, <<>>, escapeXml(metaRoot)),
       Element("gOpen", 0, 0, <<>>, <<>>) >>
    \o fileLabels
    \o circles
    \o Chunks(SortDirLabels(dirLabels))
    \o << Element("gClose", 0, 0, <<>>, <<>>),
          Element("legendOpen", 0, 0, <<>>, <<>>) >>
    \o legend
    \o << Element("legendClose", 0, 0, <<>>, <<>>),
          Element("svgClose", 0, 0, <<>>, <<>>) >>

Document(opts, metaRoot, circles, fileLabels, dirLabels, legend) ==
    << Element("xml", 0, 0, <<>>, <<>>),
       Element("svgOpen", 0, 0, <<>>, <<>>),
       Element("rect", 0, 0, opts.bgColor, <<>>),
       Element("title", 0, 0, <<>>, escapeXml(metaRoot)),
       Element("gOpen", 0, 0, <<>>, <<>>) >>
    \o circles
    \o fileLabels
    \o Chunks(SortDirLabels(dirLabels))
    \o << Element("gClose", 0, 0, <<>>, <<>>),
          Element("legendOpen", 0, 0, <<>>, <<>>) >>
    \o legend
    \o << Element("legendClose", 0, 0, <<>>, <<>>),
          Element("svgClose", 0, 0, <<>>, <<>>) >>

(***************************************************************************)
(* The command line: resolveOptions (src/src/core/scan.ts 347-410), as far *)
(* as the outputs go.  A flag of RawCLI is "undefined" when it was not     *)
(* given, else "true" or "false".                                          *)
(***************************************************************************)
Flags == { "undefined", "true", "false" }

RawCLIs == [svg : Flags, html : Flags, json : Flags, png : Flags,
            composite : { "undefined", "true" }]

NoFlags ==
    [svg |-> "undefined", html |-> "undefined", json |-> "undefined",
     png |-> "undefined", composite |-> "undefined"]

\* DEFAULTS.outputs
DefaultOutputs == [svg |-> TRUE, html |-> TRUE, json |-> TRUE, png |-> FALSE]

\* if (typeof raw.x === 'boolean') outputs.x = raw.x
Given(flag, default) == IF flag = "undefined" THEN default ELSE flag = "true"

\* the outputs as the flags give them
GivenOutputs(r) ==
    LET start == IF r.composite = "true"
                 THEN [svg |-> TRUE, html |-> TRUE, json |-> TRUE, png |-> DefaultOutputs.png]
                 ELSE DefaultOutputs
    IN  [svg |-> Given(r.svg, start.svg),
         html |-> Given(r.html, start.html),
         json |-> Given(r.json, start.json),
         png |-> Given(r.png, start.png)]

\* a resolver that leaves the outputs as given
resolveOptionsAsGiven(r) == [outputs |-> GivenOutputs(r)]

\* resolveOptions: if (outputs.html) outputs.json = true
resolveOptions(r) ==
    LET outputs == GivenOutputs(r)
    IN  [outputs |-> [outputs EXCEPT !.json = outputs.html \/ outputs.json]]

\* what can be at the target path
Targets == { "directory", "file", "missing" }

\* loadTemplate returns the template (0) or ends the process with code 2 or 5
TemplateResults == { 0, 2, 5 }

(***************************************************************************)
(* The filesystem the scanner reads.  An entry is a record of its name,    *)
(* the directory it is in (0 for the target itself), its type as lstat     *)
(* reports it, and for a symbolic link the entry it points to.  Entry 1 is *)
(* what is at options.targetPath.  The entries of a directory are in no    *)
(* particular order.                                                       *)
(***************************************************************************)
FsNames == { <<97>>, <<98, 46, 99>> }                      \* "a", "b.c"
FsTypes == { "dir", "file", "symlink", "fifo" }

Entry(name, parent, type, link) ==
    [name |-> name, parent |-> parent, type |-> type, link |-> link]

FsDirs(f) == { i \in DOMAIN f : f[i].type = "dir" }

\* the entries that can be added to f: in a directory, under a name not yet
\* used there; a symbolic link points to the target directory, a cycle
NewEntries(f) ==
    { e \in { Entry(n, p, t, IF t = "symlink" THEN 1 ELSE 0) :
                 n \in FsNames, p \in FsDirs(f), t \in FsTypes } :
        \A i \in DOMAIN f : ~(f[i].parent = e.parent /\ f[i].name = e.name) }

RECURSIVE FsUpTo(_)
FsUpTo(k) ==
    IF k = 0 THEN { <<Entry(RootName, 0, "dir", 0)>> }
    ELSE FsUpTo(k - 1) \cup
         UNION { { Append(f, e) : e \in NewEntries(f) } : f \in FsUpTo(k - 1) }

\* the target is a directory with at most MaxEntries entries below it, a
\* file, or missing
Filesystems ==
    FsUpTo(MaxEntries) \cup { <<Entry(RootName, 0, "file", 0)>>, <<>> }

\* an lstat that looks through symbolic links
lstatTypeFollowing(f, e) == IF f[e].type = "symlink" THEN f[f[e].link].type ELSE f[e].type

\* fs.lstatSync(childAbs): the type of the entry itself
lstatType(f, e) == f[e].type

\* fs.statSync: the type of what a symbolic link points to
statType(f, e) == IF f[e].type = "symlink" THEN f[f[e].link].type ELSE f[e].type

\* currentRel ? currentRel + "/" + ent.name : ent.name
JoinRel(currentRel, name) ==
    IF currentRel # <<>> THEN currentRel \o <<47>> \o name ELSE name

\* the root-relative path of an entry, "" for the target
RECURSIVE RelPath(_, _)
RelPath(f, e) ==
    IF f[e].parent = 0 THEN <<>> ELSE JoinRel(RelPath(f, f[e].parent), f[e].name)

\* the comparator of entries.sort: a goes before b
DirentBefore(a, b) ==
    \/ a.type = "dir" /\ b.type # "dir"
    \/ (a.type = "dir") = (b.type = "dir") /\ StrLess(a.name, b.name)

RECURSIVE InsertDirent(_, _, _)
InsertDirent(f, sorted, e) ==
    IF sorted = <<>> THEN <<e>>
    ELSE IF DirentBefore(f[e], f[Head(sorted)]) THEN <<e>> \o sorted
    ELSE <<Head(sorted)>> \o InsertDirent(f, Tail(sorted), e)

RECURSIVE SortDirents(_, _)
SortDirents(f, es) ==
    IF es = <<>> THEN <<>>
    ELSE InsertDirent(f, SortDirents(f, SubSeq(es, 1, Len(es) - 1)), es[Len(es)])

\* readdirSync(currentAbs, { withFileTypes: true }), sorted
readdirSorted(f, dir) ==
    SortDirents(f, SelectSeq([i \in 1..Len(f) |-> i], LAMBDA i : f[i].parent = dir))

(***************************************************************************)
(* The scanner's options and the ignore matcher.  A pattern is a name      *)
(* without a slash, which the matcher of the `ignore` package matches      *)
(* against the last segment of a path.                                     *)
(***************************************************************************)
Null == "null"
LsIgnoreFile == ".lsignore"
Depths == (0 - 2)..MaxDepth

ScanOptions(depth, dirsOnly, ignoreFile, ignorePatterns) ==
    [depth |-> depth, dirsOnly |-> dirsOnly, ignoreFile |-> ignoreFile,
     ignorePatterns |-> ignorePatterns]

\* every depth with the other defaults; dirsOnly; the ignore settings
ScanOptionsChoices ==
    { ScanOptions(d, FALSE, LsIgnoreFile, {}) : d \in Depths }
        \cup { ScanOptions(0 - 1, TRUE, LsIgnoreFile, {}) }
        \cup { ScanOptions(0 - 1, FALSE, f, p) :
                   f \in { Null, LsIgnoreFile }, p \in { {}, { <<97>> } } }

\* the ignore file: missing or without patterns, or with the pattern "b.c"
LsIgnoreChoices == { {}, { <<98, 46, 99>> } }

\* a matcher that is built from the ignore file alone
buildIgnoreMatcherFileOnly(opts, filePatterns) ==
    IF opts.ignoreFile # Null THEN filePatterns ELSE {}

\* buildIgnoreMatcher: the patterns of the file, if one is configured, and
\* the inline patterns (no matcher at all is a matcher of no pattern)
buildIgnoreMatcher(opts, filePatterns) ==
    (IF opts.ignoreFile # Null THEN filePatterns ELSE {}) \cup opts.ignorePatterns

LastSlash(path) ==
    IF 47 \in Range(path)
    THEN CHOOSE i \in DOMAIN path : path[i] = 47 /\ \A j \in (i+1)..Len(path) : path[j] # 47
    ELSE 0

Basename(path) == SubSeq(path, LastSlash(path) + 1, Len(path))

\* ig && ig.ignores(childRel)
Ignores(ig, childRel) == Basename(childRel) \in ig

(***************************************************************************)
(* The nodes the scanner creates: the nodes of model.ts with their path.   *)
(* A call of scanDirRecursive in progress is a frame: its directory node,  *)
(* its directory in the filesystem, depthLeft and the entries still to be  *)
(* looked at.                                                              *)
(***************************************************************************)
ScanDirNode(name, path, parent) ==
    [kind |-> "dir", name |-> name, ext |-> <<>>, size |-> 0, parent |-> parent,
     path |-> path]

ScanFileNode(name, path, parent) ==
    [kind |-> "file", name |-> name, ext |-> extOf(name), size |-> 1, parent |-> parent,
     path |-> path]

\* a recursion that hands its own depthLeft down
ChildDepthLeftSame(depthLeft) == depthLeft

\* depthLeft < 0 ? -1 : depthLeft - 1
ChildDepthLeft(depthLeft) == IF depthLeft < 0 THEN 0 - 1 ELSE depthLeft - 1

\* the frame of a call for the directory dir: with depthLeft 0 the call
\* returns before it reads the directory, and an unreadable directory is
\* treated as empty
Frame(f, node, dir, depthLeft, readable) ==
    [node |-> node, dir |-> dir, depthLeft |-> depthLeft,
     entries |-> IF depthLeft = 0 \/ ~readable THEN <<>> ELSE readdirSorted(f, dir)]

\* the directories a call hands to readdirSync
ReadBy(dir, depthLeft) == IF depthLeft = 0 THEN <<>> ELSE <<dir>>

(***************************************************************************)
(* The template loader (src/unnamed/part_001).  A template body is named   *)
(* by a letter; its SHA-256 digest is a string of lower-case hex digits,   *)
(* different for different bodies.  Every run of the command line makes    *)
(* one call of loadTemplate; the runs share the cache directory and may    *)
(* overlap, since loadTemplate awaits the response between looking the     *)
(* cache up and writing it.                                                *)
(***************************************************************************)
Urls == {"u", "v"}
Bodies == {"A", "B"}
Absent == "absent"
DEFAULT_HTML == "default"
LocalBody == "local"

\* createHash('sha256').update(s).digest('hex')
sha256Hex(s) == IF s = "A" THEN <<97, 49>> ELSE <<98, 50>>

\* the values of --template-hash: not given, or a digest in either case
NoHash == <<>>
Hashes == {NoHash, <<97, 49>>, <<65, 49>>, <<98, 50>>}

\* HtmlTemplate, as resolveHtmlTemplate builds it
Template(kind, url, hash, noNetwork) ==
    [kind |-> kind, url |-> url, hash |-> hash, noNetwork |-> noNetwork]

Templates ==
    {Template("default", "u", NoHash, FALSE),
     Template("local", "u", NoHash, FALSE),
     Template("remote", "v", NoHash, FALSE)}
    \cup {Template("remote", "u", h, n) : h \in Hashes, n \in BOOLEAN}

HashMismatchNever(t, body) == FALSE

\* t.hash && sha256Hex(body) !== t.hash.toLowerCase()
HashMismatch(t, body) ==
    t.hash # NoHash /\ sha256Hex(body) # toLowerCase(t.hash)

RemoteStepCacheFirst(t, cached) ==
    IF cached # Absent THEN "hit"
    ELSE IF t.noNetwork THEN "forbidden" ELSE "miss"

\* the order of the remote case: --no-network first, then the cache, then
\* the network
RemoteStep(t, cached) ==
    IF t.noNetwork THEN "forbidden"
    ELSE IF cached # Absent THEN "hit" ELSE "miss"

\* one call of loadTemplate
Call(t, at, body, code) == [t |-> t, at |-> at, body |-> body, code |-> code]
NotCalled == Call(Template("default", "u", NoHash, FALSE), "idle", Absent, -1)

\* an entry of the log of what the calls did to the cache and the network
Event(what, c, url, body) == [what |-> what, c |-> c, url |-> url, body |-> body]

(***************************************************************************)
(* The renderer, the command line, the scanner and the loader at rest.     *)
(***************************************************************************)
TplAtRest ==
    /\ tplCalls = [c \in 1..MaxCalls |-> NotCalled]
    /\ cacheDir = FALSE
    /\ cache = [u \in Urls |-> Absent]
    /\ tplLog = <<>>

CliAtRest ==
    /\ raw = NoFlags
    /\ cliOptions = resolveOptions(NoFlags)
    /\ target = "directory"
    /\ templateResult = 0
    /\ cliPc = "off"
    /\ outDirCreated = FALSE
    /\ written = <<>>
    /\ exitCode = -1

ScanAtRest ==
    /\ fs = <<>>
    /\ lsignore = {}
    /\ scanOptions = ScanOptions(0 - 1, FALSE, LsIgnoreFile, {})
    /\ scanPc = "off"
    /\ stack = <<>>
    /\ scanned = <<>>
    /\ readDirs = <<>>

RenderAtRest ==
    /\ tree = <<DirNode(RootName, 0)>>
    /\ options = Options(PaletteDefault, NoExtColors, FALSE)
    /\ packGeom = [kSq |-> NaN, dirR |-> <<>>]
    /\ generatedAt = 0
    /\ pc = "off"
    /\ calls = 0
    /\ packed = <<>>
    /\ queue = <<>>
    /\ scaleDomain = <<>>
    /\ extColorMap = <<>>
    /\ layerCircles = <<>>
    /\ layerFileLabels = <<>>
    /\ layerDirLabels = <<>>
    /\ legendGroup = <<>>
    /\ svg = <<>>
    /\ prevSvg = <<>>

(***************************************************************************)
(* The state machine: the renderer is called, walks the nodes, builds the  *)
(* legend, assembles and returns the document; then it may be called again *)
(* with the same snapshot.tree, meta.root and options.                     *)
(***************************************************************************)
\* structures that outlive the invocation
Keep(previous) == previous

\* const layerCircles = [], ... = new Map(), scaleOrdinal().domain([])
Fresh(previous) == <<>>

Init ==
    /\ tree \in InputTrees
    /\ options \in OptionsFor(tree)
    /\ packGeom \in Geometries(tree)
    /\ generatedAt = 0
    /\ pc = "idle"
    /\ calls = 0
    /\ packed = <<>>
    /\ queue = <<>>
    /\ scaleDomain = <<>>
    /\ extColorMap = <<>>
    /\ layerCircles = <<>>
    /\ layerFileLabels = <<>>
    /\ layerDirLabels = <<>>
    /\ legendGroup = <<>>
    /\ svg = <<>>
    /\ prevSvg = <<>>
    /\ CliAtRest
    /\ ScanAtRest
    /\ TplAtRest

\* svg.ts 9-62: a new invocation, with a new generatedAt in the snapshot
Begin ==
    /\ pc = "idle"
    /\ calls < MaxRenders
    /\ calls' = calls + 1
    /\ generatedAt' = generatedAt + 1
    /\ layerCircles' = Fresh(layerCircles)
    /\ layerFileLabels' = Fresh(layerFileLabels)
    /\ layerDirLabels' = Fresh(layerDirLabels)
    /\ extColorMap' = Fresh(extColorMap)
    /\ scaleDomain' = Fresh(scaleDomain)
    /\ legendGroup' = <<>>
    /\ svg' = <<>>
    /\ packed' = Pack(tree, packGeom)
    /\ queue' = descendants(tree)
    /\ pc' = "loop"
    /\ UNCHANGED <<tree, options, packGeom, prevSvg>>
    /\ UNCHANGED <<cliVars, scanVars, tplVars>>

\* svg.ts 65: the enclosing root circle is skipped
SkipRoot ==
    /\ pc = "loop"
    /\ queue # <<>>
    /\ Depth(tree, Head(queue)) = 0
    /\ queue' = Tail(queue)
    /\ UNCHANGED <<tree, options, generatedAt, packGeom, pc, calls, packed,
                   scaleDomain, extColorMap, layerCircles, layerFileLabels,
                   layerDirLabels, legendGroup, svg, prevSvg>>
    /\ UNCHANGED <<cliVars, scanVars, tplVars>>

\* svg.ts 70-120
VisitDir ==
    /\ pc = "loop"
    /\ queue # <<>>
    /\ LET node == Head(queue)
       IN  /\ Depth(tree, node) # 0
           /\ tree[node].kind = "dir"
           /\ layerCircles' = layerCircles \o DirCircles(tree, node, packed[node].rr)
           /\ layerDirLabels' = layerDirLabels \o DirLabels(tree, node, packed[node].rr)
    /\ queue' = Tail(queue)
    /\ UNCHANGED <<tree, options, generatedAt, packGeom, pc, calls, packed,
                   scaleDomain, extColorMap, layerFileLabels, legendGroup, svg,
                   prevSvg>>
    /\ UNCHANGED <<cliVars, scanVars, tplVars>>

\* svg.ts 121-135
VisitFile ==
    /\ pc = "loop"
    /\ queue # <<>>
    /\ LET node == Head(queue)
           c == colorForFile(options, scaleDomain, extColorMap,
                             tree[node].ext, tree[node].name)
       IN  /\ Depth(tree, node) # 0
           /\ tree[node].kind = "file"
           /\ scaleDomain' = c.domain
           /\ extColorMap' = c.map
           /\ layerCircles' =
                  Append(layerCircles, Element("circle", node, packed[node].rr, c.color, <<>>))
           /\ layerFileLabels' = layerFileLabels \o FileLabels(tree, node, packed[node].rr)
    /\ queue' = Tail(queue)
    /\ UNCHANGED <<tree, options, generatedAt, packGeom, pc, calls, packed,
                   layerDirLabels, legendGroup, svg, prevSvg>>
    /\ UNCHANGED <<cliVars, scanVars, tplVars>>

\* svg.ts 138-171
Legend ==
    /\ pc = "loop"
    /\ queue = <<>>
    /\ legendGroup' = LegendRows(extColorMap)
    /\ pc' = "assemble"
    /\ UNCHANGED <<tree, options, generatedAt, packGeom, calls, packed, queue,
                   scaleDomain, extColorMap, layerCircles, layerFileLabels,
                   layerDirLabels, svg, prevSvg>>
    /\ UNCHANGED <<cliVars, scanVars, tplVars>>

\* svg.ts 173-197
Assemble ==
    /\ pc = "assemble"
    /\ svg' = Document(options, MetaRoot, layerCircles, layerFileLabels,
                       layerDirLabels, legendGroup)
    /\ pc' = "done"
    /\ UNCHANGED <<tree, options, generatedAt, packGeom, calls, packed, queue,
                   scaleDomain, extColorMap, layerCircles, layerFileLabels,
                   layerDirLabels, legendGroup, prevSvg>>
    /\ UNCHANGED <<cliVars, scanVars, tplVars>>

\* the caller has the string (cli.ts 119)
Return ==
    /\ pc = "done"
    /\ prevSvg' = svg
    /\ pc' = "idle"
    /\ UNCHANGED <<tree, options, generatedAt, packGeom, calls, packed, queue,
                   scaleDomain, extColorMap, layerCircles, layerFileLabels,
                   layerDirLabels, legendGroup, svg>>
    /\ UNCHANGED <<cliVars, scanVars, tplVars>>

Next ==
    \/ Begin
    \/ SkipRoot
    \/ VisitDir
    \/ VisitFile
    \/ Legend
    \/ Assemble
    \/ Return

Spec == Init /\ [][Next]_vars

TypeOK ==
    /\ pc \in {"off", "idle", "loop", "assemble", "done"}
    /\ calls \in 0..MaxRenders

(***************************************************************************)
(* The command line action (src/src/cli.ts 62-145), step by step.          *)
(***************************************************************************)
CliInit ==
    /\ raw \in RawCLIs
    /\ cliOptions = resolveOptions(NoFlags)
    /\ target \in Targets
    /\ templateResult \in TemplateResults
    /\ cliPc = "start"
    /\ outDirCreated = FALSE
    /\ written = <<>>
    /\ exitCode = -1
    /\ RenderAtRest
    /\ ScanAtRest
    /\ TplAtRest

NoOutputs(o) == ~o.outputs.svg /\ ~o.outputs.json /\ ~o.outputs.html /\ ~o.outputs.png

\* cli.ts 63-84: resolveOptions, and exit(2) when nothing is to be written
CliResolve ==
    /\ cliPc = "start"
    /\ cliOptions' = resolveOptions(raw)
    /\ IF NoOutputs(resolveOptions(raw))
       THEN cliPc' = "exited" /\ exitCode' = 2
       ELSE cliPc' = "scan" /\ exitCode' = exitCode
    /\ UNCHANGED <<raw, target, templateResult, outDirCreated, written>>
    /\ UNCHANGED <<renderVars, scanVars, tplVars>>

\* a check of the target that accepts whatever exists
scanThrowsIfMissing(tgt) == tgt = "missing"

\* scanDirectory's check of the target: statSync throws, or the target is
\* not a directory
scanThrows(tgt) == tgt # "directory"

\* cli.ts 86-93: exit(3) when the scan throws
CliScan ==
    /\ cliPc = "scan"
    /\ IF ~scanThrows(target)
       THEN cliPc' = "mkdir" /\ exitCode' = exitCode
       ELSE cliPc' = "exited" /\ exitCode' = 3
    /\ UNCHANGED <<raw, cliOptions, target, templateResult, outDirCreated, written>>
    /\ UNCHANGED <<renderVars, scanVars, tplVars>>

\* cli.ts 113-114
CliMkdir ==
    /\ cliPc = "mkdir"
    /\ outDirCreated' = TRUE
    /\ cliPc' = "svg"
    /\ UNCHANGED <<raw, cliOptions, target, templateResult, written, exitCode>>
    /\ UNCHANGED <<renderVars, scanVars, tplVars>>

\* cli.ts 117-122
CliWriteSvg ==
    /\ cliPc = "svg"
    /\ written' = IF cliOptions.outputs.svg THEN Append(written, "circle.svg") ELSE written
    /\ cliPc' = "json"
    /\ UNCHANGED <<raw, cliOptions, target, templateResult, outDirCreated, exitCode>>
    /\ UNCHANGED <<renderVars, scanVars, tplVars>>

\* cli.ts 125-131
CliWriteJson ==
    /\ cliPc = "json"
    /\ written' = IF cliOptions.outputs.json THEN Append(written, "circle.json") ELSE written
    /\ cliPc' = "html"
    /\ UNCHANGED <<raw, cliOptions, target, templateResult, outDirCreated, exitCode>>
    /\ UNCHANGED <<renderVars, scanVars, tplVars>>

\* cli.ts 134-145: loadTemplate ends the process or the page is written, and
\* the action returns
CliWriteHtml ==
    /\ cliPc = "html"
    /\ IF cliOptions.outputs.html /\ templateResult # 0
       THEN written' = written /\ exitCode' = templateResult
       ELSE /\ written' = IF cliOptions.outputs.html
                          THEN Append(written, "circle.html")
                          ELSE written
            /\ exitCode' = 0
    /\ cliPc' = "exited"
    /\ UNCHANGED <<raw, cliOptions, target, templateResult, outDirCreated>>
    /\ UNCHANGED <<renderVars, scanVars, tplVars>>

CliNext ==
    \/ CliResolve
    \/ CliScan
    \/ CliMkdir
    \/ CliWriteSvg
    \/ CliWriteJson
    \/ CliWriteHtml

CliSpec == CliInit /\ [][CliNext]_vars

(***************************************************************************)
(* The scanner (src/unnamed/part_003 68-213), one entry at a time.         *)
(***************************************************************************)
ScanInit ==
    /\ fs \in Filesystems
    /\ lsignore \in LsIgnoreChoices
    /\ scanOptions \in ScanOptionsChoices
    /\ scanPc = "start"
    /\ stack = <<>>
    /\ scanned = <<>>
    /\ readDirs = <<>>
    /\ RenderAtRest
    /\ CliAtRest
    /\ TplAtRest

Top == stack[Len(stack)]
Ent == Head(Top.entries)
ChildRel == JoinRel(scanned[Top.node].path, fs[Ent].name)
Ig == buildIgnoreMatcher(scanOptions, lsignore)
AtEntry == scanPc = "loop" /\ stack # <<>> /\ Top.entries # <<>>
NextEntry == [stack EXCEPT ![Len(stack)].entries = Tail(Top.entries)]

\* scanDirectory 177-209 and the call for the root: the target must be a
\* directory, else the scan throws
ScanBegin ==
    /\ scanPc = "start"
    /\ IF fs # <<>> /\ statType(fs, 1) = "dir"
       THEN \E readable \in BOOLEAN :
                /\ scanned' = <<ScanDirNode(fs[1].name, <<>>, 0)>>
                /\ stack' = <<Frame(fs, 1, 1, scanOptions.depth, readable)>>
                /\ readDirs' = ReadBy(1, scanOptions.depth)
                /\ scanPc' = "loop"
       ELSE /\ scanPc' = "failed"
            /\ UNCHANGED <<stack, scanned, readDirs>>
    /\ UNCHANGED <<fs, lsignore, scanOptions>>
    /\ UNCHANGED <<renderVars, cliVars, tplVars>>

\* 117-120
SkipIgnored ==
    /\ AtEntry
    /\ Ignores(Ig, ChildRel)
    /\ stack' = NextEntry
    /\ UNCHANGED <<fs, lsignore, scanOptions, scanPc, scanned, readDirs>>
    /\ UNCHANGED <<renderVars, cliVars, tplVars>>

\* 123-128: lstatSync throws, for any entry
SkipUnreadable ==
    /\ AtEntry
    /\ ~Ignores(Ig, ChildRel)
    /\ stack' = NextEntry
    /\ UNCHANGED <<fs, lsignore, scanOptions, scanPc, scanned, readDirs>>
    /\ UNCHANGED <<renderVars, cliVars, tplVars>>

\* 130-133
SkipSymlink ==
    /\ AtEntry
    /\ ~Ignores(Ig, ChildRel)
    /\ lstatType(fs, Ent) = "symlink"
    /\ stack' = NextEntry
    /\ UNCHANGED <<fs, lsignore, scanOptions, scanPc, scanned, readDirs>>
    /\ UNCHANGED <<renderVars, cliVars, tplVars>>

\* 135-148 and 79-109 of the call made: the child's node is created and
\* its directory read, unless depthLeft is 0 there
ScanDir ==
    /\ AtEntry
    /\ ~Ignores(Ig, ChildRel)
    /\ lstatType(fs, Ent) = "dir"
    /\ \E readable \in BOOLEAN :
           /\ scanned' = Append(scanned, ScanDirNode(fs[Ent].name, ChildRel, Top.node))
           /\ stack' = Append(NextEntry,
                              Frame(fs, Len(scanned) + 1, Ent,
                                    ChildDepthLeft(Top.depthLeft), readable))
           /\ readDirs' = readDirs \o ReadBy(Ent, ChildDepthLeft(Top.depthLeft))
    /\ UNCHANGED <<fs, lsignore, scanOptions, scanPc>>
    /\ UNCHANGED <<renderVars, cliVars, tplVars>>

\* 149-158
ScanFile ==
    /\ AtEntry
    /\ ~Ignores(Ig, ChildRel)
    /\ lstatType(fs, Ent) = "file"
    /\ ~scanOptions.dirsOnly
    /\ scanned' = Append(scanned, ScanFileNode(fs[Ent].name, ChildRel, Top.node))
    /\ stack' = NextEntry
    /\ UNCHANGED <<fs, lsignore, scanOptions, scanPc, readDirs>>
    /\ UNCHANGED <<renderVars, cliVars, tplVars>>

\* 159-162: other types, and files when dirsOnly
SkipOther ==
    /\ AtEntry
    /\ ~Ignores(Ig, ChildRel)
    /\ lstatType(fs, Ent) \notin { "symlink", "dir" }
    /\ lstatType(fs, Ent) = "file" => scanOptions.dirsOnly
    /\ stack' = NextEntry
    /\ UNCHANGED <<fs, lsignore, scanOptions, scanPc, scanned, readDirs>>
    /\ UNCHANGED <<renderVars, cliVars, tplVars>>

\* 165, 90-92, 99-102: the call returns its node; the last one returns the
\* tree
ScanReturn ==
    /\ scanPc = "loop"
    /\ stack # <<>>
    /\ Top.entries = <<>>
    /\ stack' = SubSeq(stack, 1, Len(stack) - 1)
    /\ scanPc' = IF Len(stack) = 1 THEN "returned" ELSE scanPc
    /\ UNCHANGED <<fs, lsignore, scanOptions, scanned, readDirs>>
    /\ UNCHANGED <<renderVars, cliVars, tplVars>>

ScanNext ==
    \/ ScanBegin
    \/ SkipIgnored
    \/ SkipUnreadable
    \/ SkipSymlink
    \/ ScanDir
    \/ ScanFile
    \/ SkipOther
    \/ ScanReturn

ScanSpec == ScanInit /\ [][ScanNext]_vars

(***************************************************************************)
(* What a state shows of the render in progress.                           *)
(***************************************************************************)
IsFileFill(e) == e.el = "circle" /\ e.node # 0 /\ tree[e.node].kind = "file"

\* the file nodes whose fill circle has been emitted, in emission order
EmittedFiles ==
    LET cs == SelectSeq(layerCircles, IsFileFill)
    IN  [i \in DOMAIN cs |-> cs[i].node]

FillOf(node) ==
    layerCircles[CHOOSE i \in DOMAIN layerCircles :
                     layerCircles[i].el = "circle" /\ layerCircles[i].node = node].fill

Overridden(node) == HasOverride(options, tree[node].ext)
KeyOf(node) == ColorKey(tree[node].ext, tree[node].name)

\* the emitted files that went through the palette
PaletteFiles == SelectSeq(EmittedFiles, LAMBDA n : ~Overridden(n))

\* the distinct elements of a sequence, in order of first occurrence
RECURSIVE FirstSeen(_)
FirstSeen(s) ==
    IF s = <<>> THEN <<>>
    ELSE LET init == FirstSeen(SubSeq(s, 1, Len(s) - 1))
         IN  IF s[Len(s)] \in Range(init) THEN init ELSE Append(init, s[Len(s)])

PaletteKeys == FirstSeen([i \in DOMAIN PaletteFiles |-> KeyOf(PaletteFiles[i])])

Scheme == pickD3Scheme(options.palette)

Rendering == pc \in {"loop", "assemble", "done"}

Elements(kind) == { i \in DOMAIN svg : svg[i].el = kind }
LegendRowsFor(ext) == { i \in Elements("legendRow") : svg[i].text = escapeXml(ext) }

(***************************************************************************)
(* C3.  Override precedence: a file whose extension has an override gets   *)
(* exactly the override colour, and that call consumes no palette slot:    *)
(* the scale's domain, and the colour of every other file, are those of a  *)
(* render in which the overridden files are absent.                        *)
(***************************************************************************)
\* the scale's domain after the keys of the given files, from an empty domain
RECURSIVE DomainAfter(_)
DomainAfter(files) ==
    IF files = <<>> THEN <<>>
    ELSE fileColorScale(DomainAfter(SubSeq(files, 1, Len(files) - 1)), Scheme,
                        KeyOf(files[Len(files)])).domain

OverridePrecedence ==
    Rendering =>
        LET without == DomainAfter(PaletteFiles)
        IN  /\ \A n \in Range(EmittedFiles) :
                   Overridden(n) => FillOf(n) = options.extColors[tree[n].ext]
            /\ scaleDomain = without
            /\ \A n \in Range(PaletteFiles) :
                   FillOf(n) = fileColorScale(without, Scheme, KeyOf(n)).color

\* an overridden file was coloured, and a palette file after it
OverrideWitness ==
    /\ pc = "done"
    /\ \E i, j \in DOMAIN EmittedFiles :
           /\ i < j
           /\ Overridden(EmittedFiles[i])
           /\ ~Overridden(EmittedFiles[j])
           /\ FillOf(EmittedFiles[i]) = Red
           /\ FillOf(EmittedFiles[j]) # Red

(***************************************************************************)
(* C4.  Legend completeness, as claimed: every (non-empty) extension of a  *)
(* file whose fill circle was emitted is the text of exactly one legend    *)
(* row, and the row has the file's fill colour.                            *)
(***************************************************************************)
LegendCompleteClaimed ==
    pc = "done" =>
        \A i \in Elements("circle") :
            (IsFileFill(svg[i]) /\ tree[svg[i].node].ext # <<>>) =>
                /\ Cardinality(LegendRowsFor(tree[svg[i].node].ext)) = 1
                /\ \A j \in LegendRowsFor(tree[svg[i].node].ext) : svg[j].fill = svg[i].fill

(***************************************************************************)
(* C4, amended.  Every non-empty extension without an override of a file   *)
(* whose fill circle was emitted is the text of exactly one legend row,    *)
(* and the row has the file's fill colour.                                 *)
(***************************************************************************)
LegendComplete ==
    pc = "done" =>
        \A i \in Elements("circle") :
            (IsFileFill(svg[i]) /\ tree[svg[i].node].ext # <<>> /\ ~Overridden(svg[i].node)) =>
                /\ Cardinality(LegendRowsFor(tree[svg[i].node].ext)) = 1
                /\ \A j \in LegendRowsFor(tree[svg[i].node].ext) : svg[j].fill = svg[i].fill

\* two files share an extension that has a legend row
LegendCompleteWitness ==
    /\ pc = "done"
    /\ \E i, j \in Elements("circle") :
           /\ i # j
           /\ IsFileFill(svg[i])
           /\ IsFileFill(svg[j])
           /\ tree[svg[i].node].ext = tree[svg[j].node].ext
           /\ LegendRowsFor(tree[svg[i].node].ext) # {}

(***************************************************************************)
(* C5.  Legend ordering: the legend rows are in ascending order of the     *)
(* extension string alone.                                                 *)
(***************************************************************************)
TreeExts == { tree[n].ext : n \in Files(tree) }

LegendSortedByExt ==
    pc = "done" =>
        \A i, j \in Elements("legendRow") :
            i < j =>
                \E a, b \in TreeExts :
                    /\ svg[i].text = escapeXml(a)
                    /\ svg[j].text = escapeXml(b)
                    /\ StrLess(a, b)

(***************************************************************************)
(* C6.  Palette first-seen cycling: the k-th distinct key that goes        *)
(* through the palette (k from 1) gets palette[(k-1) mod n], n the length  *)
(* of the palette, and the legend row of a key that is an extension has    *)
(* that colour: with more keys than colours the colours repeat.            *)
(***************************************************************************)
CycledColor(k) == Scheme[((k - 1) % Len(Scheme)) + 1]

PaletteCycling ==
    LET keys == PaletteKeys
        files == Range(PaletteFiles)
    IN  /\ Rendering =>
               \A k \in DOMAIN keys : \A n \in files :
                   KeyOf(n) = keys[k] => FillOf(n) = CycledColor(k)
        /\ pc = "done" =>
               \A k \in DOMAIN keys : \A n \in files :
                   (KeyOf(n) = keys[k] /\ tree[n].ext # <<>>) =>
                       /\ Cardinality(LegendRowsFor(tree[n].ext)) = 1
                       /\ \A j \in LegendRowsFor(tree[n].ext) : svg[j].fill = CycledColor(k)

\* MaxWide extensions on the 8 colours of Dark2: the ninth has the colour of
\* the first, and the legend has a row for each
PaletteCyclingWitness ==
    /\ pc = "done"
    /\ Len(Scheme) = 8
    /\ Len(PaletteKeys) = MaxWide
    /\ Cardinality(Elements("legendRow")) = MaxWide
    /\ \E m, n \in Range(PaletteFiles) :
           /\ KeyOf(m) = PaletteKeys[1]
           /\ KeyOf(n) = PaletteKeys[9]
           /\ FillOf(m) = FillOf(n)

(***************************************************************************)
(* C7.  Palette allocation order, as claimed: the files are coloured in    *)
(* pre-order (document order), the files of a directory's subtree before   *)
(* the files that follow the directory among its siblings.  Nodes are      *)
(* numbered in document order.                                             *)
(***************************************************************************)
PreOrderVisit ==
    Rendering =>
        LET emitted == EmittedFiles
        IN  \A i, j \in DOMAIN emitted : i < j => emitted[i] < emitted[j]

(***************************************************************************)
(* C7, amended.  The files are coloured in breadth-first order: a file is  *)
(* coloured before every deeper file, and before the files of its own      *)
(* depth that come later in document order; every file is coloured, and    *)
(* the scale's domain is the first-seen order of the palette keys.         *)
(***************************************************************************)
LevelBefore(a, b) ==
    \/ Depth(tree, a) < Depth(tree, b)
    \/ Depth(tree, a) = Depth(tree, b) /\ a < b

LevelOrderVisit ==
    LET emitted == EmittedFiles
    IN  /\ Rendering =>
               /\ \A i, j \in DOMAIN emitted : i < j => LevelBefore(emitted[i], emitted[j])
               /\ scaleDomain = PaletteKeys
        /\ pc = "done" => Range(emitted) = Files(tree)

\* a file was coloured before a file that precedes it in document order
LevelOrderWitness ==
    /\ pc = "done"
    /\ \E i, j \in DOMAIN EmittedFiles :
           /\ i < j
           /\ EmittedFiles[i] > EmittedFiles[j]
           /\ Depth(tree, EmittedFiles[i]) < Depth(tree, EmittedFiles[j])

(***************************************************************************)
(* C8.  Determinism: an invocation with the same snapshot.tree, meta.root  *)
(* and options as the one before it returns the same document, whatever    *)
(* the earlier invocation left behind and whatever meta.generatedAt is.    *)
(***************************************************************************)
Deterministic == (pc = "done" /\ calls >= 2) => svg = prevSvg

\* a second invocation, with another generatedAt, returned a document with
\* circles and legend rows
DeterministicWitness ==
    /\ pc = "done"
    /\ calls = 2
    /\ generatedAt = 2
    /\ prevSvg = svg
    /\ Elements("legendRow") # {}
    /\ Elements("fileLabel") # {}

(***************************************************************************)
(* C9.  Monotonic weight-to-radius: of two files of one directory, the     *)
(* smaller has at most the weight and at most the radius of the larger,    *)
(* in the layout and in the emitted circles; equal sizes give equal radii. *)
(***************************************************************************)
Siblings(a, b) == a # b /\ tree[a].parent = tree[b].parent

MonotonicRadius ==
    /\ packed # <<>> =>
           \A a, b \in Files(tree) :
               Siblings(a, b) =>
                   /\ tree[a].size < tree[b].size =>
                          /\ packed[a].value <= packed[b].value
                          /\ packed[a].rr <= packed[b].rr
                   /\ tree[a].size = tree[b].size => packed[a].rr = packed[b].rr
    /\ \A i, j \in DOMAIN layerCircles :
           (/\ IsFileFill(layerCircles[i])
            /\ IsFileFill(layerCircles[j])
            /\ Siblings(layerCircles[i].node, layerCircles[j].node)) =>
               /\ tree[layerCircles[i].node].size < tree[layerCircles[j].node].size =>
                      layerCircles[i].r <= layerCircles[j].r
               /\ tree[layerCircles[i].node].size = tree[layerCircles[j].node].size =>
                      layerCircles[i].r = layerCircles[j].r

\* two files of one directory, the larger with the larger circle, and a third
\* between them
MonotonicRadiusWitness ==
    /\ pc = "done"
    /\ \E i, j, k \in DOMAIN layerCircles :
           /\ IsFileFill(layerCircles[i])
           /\ IsFileFill(layerCircles[j])
           /\ IsFileFill(layerCircles[k])
           /\ Siblings(layerCircles[i].node, layerCircles[j].node)
           /\ tree[layerCircles[i].node].size < tree[layerCircles[k].node].size
           /\ tree[layerCircles[k].node].size < tree[layerCircles[j].node].size
           /\ layerCircles[i].r < layerCircles[k].r
           /\ layerCircles[k].r < layerCircles[j].r

(***************************************************************************)
(* C10.  Layer order: in the document the background rectangle precedes    *)
(* every node element, every node fill circle precedes every file text     *)
(* label, and every file text label precedes every directory rim label.    *)
(***************************************************************************)
NodeElements ==
    Elements("circle") \cup Elements("rim") \cup Elements("fileLabel") \cup Elements("dirLabel")

LayerOrder ==
    pc = "done" =>
        /\ Elements("rect") # {}
        /\ \A r \in Elements("rect") : \A n \in NodeElements : r < n
        /\ \A c \in Elements("circle") : \A f \in Elements("fileLabel") : c < f
        /\ \A f \in Elements("fileLabel") : \A d \in Elements("dirLabel") : f < d

\* a document with fills of a directory and a file, a file label and a
\* directory label
LayerOrderWitness ==
    /\ pc = "done"
    /\ \E c \in Elements("circle") : tree[svg[c].node].kind = "dir"
    /\ \E c \in Elements("circle") : tree[svg[c].node].kind = "file"
    /\ Elements("fileLabel") # {}
    /\ Elements("dirLabel") # {}

(***************************************************************************)
(* C11.  Directory rim strokes after file labels: in the document every    *)
(* directory rim stroke comes after every file text label, next to the     *)
(* directory's rim label.                                                  *)
(***************************************************************************)
RimStrokesAfterFileLabels ==
    pc = "done" =>
        /\ \A f \in Elements("fileLabel") : \A s \in Elements("rim") : f < s
        /\ \A s \in Elements("rim") :
               \E d \in Elements("dirLabel") :
                   svg[d].node = svg[s].node /\ (d = s + 1 \/ s = d + 1)

(***************************************************************************)
(* C12.  Directory label ordering: of two directory rim labels in the      *)
(* document, the one of the directory with the smaller radius comes first. *)
(***************************************************************************)
LargerDirLabelsLater ==
    pc = "done" =>
        \A a, b \in Elements("dirLabel") : svg[a].r < svg[b].r => a < b

(***************************************************************************)
(* C13.  Empty tree: the document rendered for a tree that is a root       *)
(* directory without children has exactly one node circle, no node text    *)
(* label and no legend row.                                                *)
(***************************************************************************)
EmptyTreeOneCircle ==
    (pc = "done" /\ Len(tree) = 1) =>
        /\ Cardinality(Elements("circle")) = 1
        /\ Elements("fileLabel") \cup Elements("dirLabel") = {}
        /\ Elements("legendRow") = {}

(***************************************************************************)
(* C14.  Empty directories remain visible: the circle emitted for a        *)
(* directory below the root that has no children has a strictly positive   *)
(* radius.                                                                 *)
(***************************************************************************)
EmptyDirsVisible ==
    \A i \in DOMAIN layerCircles :
        (/\ tree[layerCircles[i].node].kind = "dir"
         /\ Children(tree, layerCircles[i].node) = <<>>) =>
            (layerCircles[i].r # NaN /\ layerCircles[i].r > 0)

(***************************************************************************)
(* C15.  Legend contents are exactly the palette-path extensions: the      *)
(* legend has one row for each non-empty extension, without an override,   *)
(* of a file of the tree, and no other row; during the walk extColorMap    *)
(* holds such extensions only, so neither the name of an extensionless     *)
(* file nor an overridden extension ever gets a row.                       *)
(***************************************************************************)
PaletteExts ==
    { tree[n].ext : n \in { f \in Files(tree) : tree[f].ext # <<>> /\ ~Overridden(f) } }

LegendExact ==
    /\ Rendering =>
           \A i \in DOMAIN extColorMap :
               /\ extColorMap[i][1] \in PaletteExts
               /\ \E n \in Range(EmittedFiles) : tree[n].ext = extColorMap[i][1]
    /\ pc = "done" =>
           /\ { svg[i].text : i \in Elements("legendRow") } = { escapeXml(e) : e \in PaletteExts }
           /\ Cardinality(Elements("legendRow")) = Cardinality(PaletteExts)

\* an extensionless file, a file with an overridden extension and a file
\* with another extension were rendered, and the legend has one row
LegendExactWitness ==
    /\ pc = "done"
    /\ \E a, b, c \in Range(EmittedFiles) :
           /\ tree[a].ext = <<>>
           /\ Overridden(b)
           /\ tree[c].ext # <<>> /\ ~Overridden(c)
    /\ Cardinality(Elements("legendRow")) = 1

(***************************************************************************)
(* C16.  Escaping: the text of every node label is the escaped name of its *)
(* node, the text of every legend row an escaped extension and the text of *)
(* the title the escaped root path: the text holds none of < > ' " and     *)
(* holds & only as the first character of one of the five entities, and    *)
(* decoding the entities gives the original string back.                   *)
(***************************************************************************)
Entities ==
    { <<60, <<38, 108, 116, 59>>>>,                         \* < &lt;
      <<62, <<38, 103, 116, 59>>>>,                         \* > &gt;
      <<38, <<38, 97, 109, 112, 59>>>>,                     \* & &amp;
      <<34, <<38, 113, 117, 111, 116, 59>>>>,               \* " &quot;
      <<39, <<38, 35, 51, 57, 59>>>> }                      \* ' &#39;

StartsWith(s, prefix) ==
    Len(s) >= Len(prefix) /\ SubSeq(s, 1, Len(prefix)) = prefix

Contains(s, sub) ==
    \E i \in 1..(Len(s) - Len(sub) + 1) : SubSeq(s, i, i + Len(sub) - 1) = sub

\* the entity s starts with, as a set of at most one element
EntityAt(s) == { e \in Entities : StartsWith(s, e[2]) }

\* what an XML reader makes of the text
RECURSIVE Unescape(_)
Unescape(s) ==
    IF s = <<>> THEN <<>>
    ELSE IF EntityAt(s) # {}
    THEN LET e == CHOOSE e \in EntityAt(s) : TRUE
         IN  <<e[1]>> \o Unescape(SubSeq(s, Len(e[2]) + 1, Len(s)))
    ELSE <<Head(s)>> \o Unescape(Tail(s))

NoRawMarkup(s) ==
    \A i \in DOMAIN s :
        /\ s[i] \notin {60, 62, 39, 34}
        /\ s[i] = 38 => EntityAt(SubSeq(s, i, Len(s))) # {}

EscapedFrom(text, original) == NoRawMarkup(text) /\ Unescape(text) = original

Escaping ==
    pc = "done" =>
        /\ \A i \in Elements("fileLabel") \cup Elements("dirLabel") :
               EscapedFrom(svg[i].text, tree[svg[i].node].name)
        /\ \A i \in Elements("legendRow") :
               \E n \in Files(tree) : EscapedFrom(svg[i].text, tree[n].ext)
        /\ \A i \in Elements("title") : EscapedFrom(svg[i].text, MetaRoot)
        /\ Elements("title") # {}

\* the document of the tree with the special names: each of the five
\* entities is in a text
EscapingWitness ==
    /\ pc = "done"
    /\ \E i \in Elements("dirLabel") :
           /\ Contains(svg[i].text, <<38, 108, 116, 59>>)
           /\ Contains(tree[svg[i].node].name, <<60>>)
    /\ \E i \in Elements("fileLabel") :
           /\ Contains(svg[i].text, <<38, 35, 51, 57, 59>>)
           /\ Contains(tree[svg[i].node].name, <<39>>)
    /\ \E i \in Elements("legendRow") :
           /\ Contains(svg[i].text, <<38, 97, 109, 112, 59>>)
           /\ Contains(svg[i].text, <<38, 113, 117, 111, 116, 59>>)
    /\ \E i \in Elements("title") :
           /\ Contains(svg[i].text, <<38, 103, 116, 59>>)
           /\ Contains(MetaRoot, <<62>>)

(***************************************************************************)
(* C17.  Hiding directory names: when the options say that directory names *)
(* are hidden, the document has no directory name label, whatever the      *)
(* radii of the directories.                                               *)
(***************************************************************************)
NoDirLabelsWhenHidden ==
    (pc = "done" /\ options.noFolders) => Elements("dirLabel") = {}

(***************************************************************************)
(* C18.  HTML implies JSON: resolveOptions returns no options with         *)
(* outputs.html true and outputs.json false, for any flags, and in a run   *)
(* of the command line that writes circle.html, circle.json was written    *)
(* before it.                                                              *)
(***************************************************************************)
WrittenBefore(a, b) ==
    \E i, j \in DOMAIN written : i < j /\ written[i] = a /\ written[j] = b

HtmlImpliesJson ==
    /\ \A r \in RawCLIs : resolveOptions(r).outputs.html => resolveOptions(r).outputs.json
    /\ cliOptions.outputs.html => cliOptions.outputs.json
    /\ "circle.html" \in Range(written) => WrittenBefore("circle.json", "circle.html")

\* a run with --html and json switched off wrote the page, after the data
HtmlImpliesJsonWitness ==
    /\ cliPc = "exited"
    /\ exitCode = 0
    /\ raw.html = "true"
    /\ raw.json = "false"
    /\ WrittenBefore("circle.json", "circle.html")

(***************************************************************************)
(* What a state shows of the scan in progress.                             *)
(***************************************************************************)
\* the filesystem entries at the path of node i
EntriesOf(i) == { e \in DOMAIN fs : RelPath(fs, e) = scanned[i].path }

\* the directory of node i was handed to readdirSync
WasRead(i) == \E k \in DOMAIN readDirs : readDirs[k] \in EntriesOf(i)

ScanDirs == { i \in DOMAIN scanned : scanned[i].kind = "dir" }

(***************************************************************************)
(* C19.  Depth limit: with options.depth = d >= 0 no node of the scanned   *)
(* tree is deeper than d below the root, and a directory at depth d is     *)
(* not read and has no children (the root, when d = 0); with a negative d  *)
(* every call of the recursion has a negative depthLeft, so none of them   *)
(* stops at the limit and every directory of the tree is read.             *)
(***************************************************************************)
DepthLimit ==
    /\ scanOptions.depth >= 0 =>
           /\ \A i \in DOMAIN scanned : Depth(scanned, i) <= scanOptions.depth
           /\ \A i \in ScanDirs :
                  IF Depth(scanned, i) = scanOptions.depth
                  THEN Children(scanned, i) = <<>> /\ ~WasRead(i)
                  ELSE WasRead(i)
    /\ scanOptions.depth < 0 =>
           /\ \A k \in DOMAIN stack : stack[k].depthLeft < 0
           /\ \A i \in ScanDirs : WasRead(i)

\* a scan with depth 1 returned a tree with a directory below the root that
\* has no children, while the directory in the filesystem has entries
DepthLimitWitness ==
    /\ scanPc = "returned"
    /\ scanOptions.depth = 1
    /\ \E i \in ScanDirs :
           /\ Depth(scanned, i) = 1
           /\ Children(scanned, i) = <<>>
           /\ \E e \in EntriesOf(i) : \E c \in DOMAIN fs :
                  fs[c].parent = e /\ fs[c].type \in { "dir", "file" }
    /\ \E i \in DOMAIN scanned : scanned[i].kind = "file" /\ Depth(scanned, i) = 1

(***************************************************************************)
(* C20.  Symbolic links are never followed: every node of the scanned tree *)
(* is at the path of an entry that lstat reports as a directory or a file, *)
(* below directories only; no symbolic link is handed to readdirSync; and  *)
(* the tree is finite and acyclic: no directory is read twice, no path has *)
(* two nodes, a node's parent is created before it, and the tree has at    *)
(* most as many nodes as the filesystem has entries.                       *)
(***************************************************************************)
NoSymlinkFollowed ==
    /\ \A i \in DOMAIN scanned :
           /\ EntriesOf(i) # {}
           /\ \A e \in EntriesOf(i) :
                  /\ fs[e].type = scanned[i].kind
                  /\ \A a \in Ancestors(fs, e) : fs[a].type = "dir"
           /\ scanned[i].parent < i
    /\ \A k \in DOMAIN readDirs : fs[readDirs[k]].type = "dir"
    /\ \A j, k \in DOMAIN readDirs : j # k => readDirs[j] # readDirs[k]
    /\ \A i, j \in DOMAIN scanned : i # j => scanned[i].path # scanned[j].path
    /\ Len(scanned) <= Len(fs)

\* a scan returned that read a directory with a symbolic link to the target
\* in it, not ignored, and put a later entry of that directory in the tree
NoSymlinkFollowedWitness ==
    /\ scanPc = "returned"
    /\ \E e \in DOMAIN fs :
           /\ fs[e].type = "symlink"
           /\ fs[e].link = 1
           /\ fs[e].parent \in Range(readDirs)
           /\ ~Ignores(Ig, RelPath(fs, e))
           /\ \E i \in DOMAIN scanned : \E c \in EntriesOf(i) :
                  /\ fs[c].parent = fs[e].parent
                  /\ DirentBefore(fs[e], fs[c])

(***************************************************************************)
(* C21.  Ignore patterns are honored: an entry matched by a pattern of the *)
(* ignore file or by an inline pattern is at no time a node of the scanned *)
(* tree, and neither is an entry below a matched entry; the matcher in     *)
(* force holds the inline patterns, and the patterns of the ignore file    *)
(* unless options.ignoreFile is null.                                      *)
(***************************************************************************)
CombinedPatterns ==
    IF scanOptions.ignoreFile = Null
    THEN scanOptions.ignorePatterns
    ELSE lsignore \cup scanOptions.ignorePatterns

\* the entry, below the target, is matched by a pattern
Matched(e) == fs[e].parent # 0 /\ fs[e].name \in CombinedPatterns

NodeAt(e) == \E i \in DOMAIN scanned : scanned[i].path = RelPath(fs, e)

IgnoreHonored ==
    /\ \A e \in DOMAIN fs :
           (Matched(e) \/ \E a \in Ancestors(fs, e) : Matched(a)) => ~NodeAt(e)
    /\ Ig = CombinedPatterns

\* a scan without ignore file and with the inline pattern "a" returned: the
\* directory a and the file in it are not in the tree, and the file b.c,
\* which the ignore file names, is
IgnoreHonoredWitness ==
    /\ scanPc = "returned"
    /\ scanOptions.ignoreFile = Null
    /\ lsignore # {}
    /\ \E d, c, f \in DOMAIN fs :
           /\ fs[d].type = "dir" /\ Matched(d)
           /\ fs[c].parent = d /\ fs[c].type = "file"
           /\ fs[f].name \in lsignore /\ fs[f].parent = 1 /\ NodeAt(f)
           /\ ~NodeAt(d) /\ ~NodeAt(c)

(***************************************************************************)
(* loadTemplate (src/unnamed/part_001 lines 68-130).  A call runs from its *)
(* entry to its return, to process.exit or to the await of the response in *)
(* one step, and from the response to its end in another.                  *)
(***************************************************************************)
TplInit ==
    /\ RenderAtRest
    /\ CliAtRest
    /\ ScanAtRest
    /\ tplCalls = [c \in 1..MaxCalls |-> NotCalled]
    /\ \E b \in {Absent, "A"} :
          /\ cache = [u \in Urls |-> IF u = "u" THEN b ELSE Absent]
          /\ cacheDir = (b # Absent)
    /\ tplLog = <<>>

\* the runs start in order
CanStart(c) ==
    /\ tplCalls[c].at = "idle"
    /\ IF c = 1 THEN TRUE ELSE tplCalls[c - 1].at # "idle"

Returned(c, t, body) ==
    tplCalls' = [tplCalls EXCEPT ![c] = Call(t, "returned", body, -1)]

Exited(c, t, body, code) ==
    tplCalls' = [tplCalls EXCEPT ![c] = Call(t, "exited", body, code)]

\* case 'default'
TplDefault ==
    \E c \in 1..MaxCalls, t \in Templates :
        /\ CanStart(c)
        /\ t.kind = "default"
        /\ Returned(c, t, DEFAULT_HTML)
        /\ tplLog' = Append(tplLog, Event("call", c, t.url, Absent))
        /\ UNCHANGED <<cacheDir, cache>>
        /\ UNCHANGED <<renderVars, cliVars, scanVars>>

\* case 'local': the file is read, or the read throws and the process exits
TplLocal ==
    \E c \in 1..MaxCalls, t \in Templates, readable \in BOOLEAN :
        /\ CanStart(c)
        /\ t.kind = "local"
        /\ IF readable THEN Returned(c, t, LocalBody)
                       ELSE Exited(c, t, Absent, 5)
        /\ tplLog' = Append(tplLog, Event("call", c, t.url, Absent))
        /\ UNCHANGED <<cacheDir, cache>>
        /\ UNCHANGED <<renderVars, cliVars, scanVars>>

\* case 'remote' with t.noNetwork
TplForbidden ==
    \E c \in 1..MaxCalls, t \in Templates :
        /\ CanStart(c)
        /\ t.kind = "remote"
        /\ RemoteStep(t, cache[t.url]) = "forbidden"
        /\ Exited(c, t, Absent, 2)
        /\ tplLog' = Append(tplLog, Event("call", c, t.url, Absent))
        /\ UNCHANGED <<cacheDir, cache>>
        /\ UNCHANGED <<renderVars, cliVars, scanVars>>

\* case 'remote', the cache file exists: it is read and checked
TplCacheHit ==
    \E c \in 1..MaxCalls, t \in Templates :
        /\ CanStart(c)
        /\ t.kind = "remote"
        /\ RemoteStep(t, cache[t.url]) = "hit"
        /\ cacheDir' = TRUE
        /\ IF HashMismatch(t, cache[t.url])
              THEN Exited(c, t, cache[t.url], 2)
              ELSE Returned(c, t, cache[t.url])
        /\ tplLog' = tplLog \o <<Event("call", c, t.url, Absent),
                                 Event("mkdir", c, t.url, Absent),
                                 Event("read", c, t.url, cache[t.url])>>
        /\ UNCHANGED cache
        /\ UNCHANGED <<renderVars, cliVars, scanVars>>

\* case 'remote', no cache file: the request is sent and awaited
TplRequest ==
    \E c \in 1..MaxCalls, t \in Templates :
        /\ CanStart(c)
        /\ t.kind = "remote"
        /\ RemoteStep(t, cache[t.url]) = "miss"
        /\ cacheDir' = TRUE
        /\ tplCalls' = [tplCalls EXCEPT ![c] = Call(t, "awaiting", Absent, -1)]
        /\ tplLog' = tplLog \o <<Event("call", c, t.url, Absent),
                                 Event("mkdir", c, t.url, Absent),
                                 Event("request", c, t.url, Absent)>>
        /\ UNCHANGED cache
        /\ UNCHANGED <<renderVars, cliVars, scanVars>>

\* the response arrives: it is checked, written to the cache and returned
TplFetched ==
    \E c \in 1..MaxCalls, body \in Bodies :
        LET t == tplCalls[c].t IN
        /\ tplCalls[c].at = "awaiting"
        /\ IF HashMismatch(t, body)
              THEN /\ Exited(c, t, body, 2)
                   /\ UNCHANGED <<cache, tplLog>>
              ELSE /\ Returned(c, t, body)
                   /\ cache' = [cache EXCEPT ![t.url] = body]
                   /\ tplLog' = Append(tplLog, Event("write", c, t.url, body))
        /\ UNCHANGED cacheDir
        /\ UNCHANGED <<renderVars, cliVars, scanVars>>

\* the request fails: the catch clause reports it and the process exits
TplFetchFailed ==
    \E c \in 1..MaxCalls :
        /\ tplCalls[c].at = "awaiting"
        /\ Exited(c, tplCalls[c].t, Absent, 5)
        /\ UNCHANGED <<cacheDir, cache, tplLog>>
        /\ UNCHANGED <<renderVars, cliVars, scanVars>>

TplNext ==
    \/ TplDefault
    \/ TplLocal
    \/ TplForbidden
    \/ TplCacheHit
    \/ TplRequest
    \/ TplFetched
    \/ TplFetchFailed

TemplateSpec == TplInit /\ [][TplNext]_vars

\* the events of call c, in order
EventsOf(c) == SelectSeq(tplLog, LAMBDA e : e.c = c)

\* call c did something of this kind
Did(c, what) == \E i \in DOMAIN tplLog : tplLog[i].c = c /\ tplLog[i].what = what

\* C22: a remote call with --no-network exits with code 2 and neither sends
\* a request nor creates, reads or writes the cache, cached copy or not.
NoNetworkExits ==
    \A c \in 1..MaxCalls :
        LET call == tplCalls[c] IN
        (call.at # "idle" /\ call.t.kind = "remote" /\ call.t.noNetwork)
            => /\ call.at = "exited"
               /\ call.code = 2
               /\ ~Did(c, "request")
               /\ ~Did(c, "mkdir")
               /\ ~Did(c, "read")
               /\ ~Did(c, "write")

NoNetworkExitsWitness ==
    \E c \in 1..MaxCalls :
        /\ tplCalls[c].at = "exited"
        /\ tplCalls[c].t.kind = "remote"
        /\ tplCalls[c].t.noNetwork
        /\ \E i, j \in DOMAIN tplLog :
              /\ i < j
              /\ tplLog[i].what = "write"
              /\ tplLog[i].url = tplCalls[c].t.url
              /\ tplLog[j].what = "call"
              /\ tplLog[j].c = c

\* the digest of this body is the hash the template was configured with
Matches(t, body) == sha256Hex(body) = toLowerCase(t.hash)

\* C23: a remote call that was given a hash neither returns nor caches a
\* body whose digest differs from it, letter case aside; a call that met
\* such a body, in the cache or in the response, exited with code 2.
TemplateIntegrity ==
    \A c \in 1..MaxCalls :
        LET call == tplCalls[c] IN
        (call.t.kind = "remote" /\ call.t.hash # NoHash)
            => /\ call.at = "returned" => Matches(call.t, call.body)
               /\ \A i \in DOMAIN tplLog :
                      (tplLog[i].c = c /\ tplLog[i].what = "write")
                          => Matches(call.t, tplLog[i].body)
               /\ (call.body \in Bodies /\ ~Matches(call.t, call.body))
                      => call.at = "exited" /\ call.code = 2

TemplateIntegrityWitness ==
    \E c, d \in 1..MaxCalls :
        /\ tplCalls[c].t.hash = <<65, 49>>
        /\ tplCalls[c].at = "returned"
        /\ Did(c, "write")
        /\ tplCalls[d].t.hash # NoHash
        /\ tplCalls[d].at = "exited"
        /\ tplCalls[d].code = 2
        /\ Did(d, "read")

\* call c may use a cached copy holding this body
MayReuse(c, body) ==
    /\ tplCalls[c].t.kind = "remote"
    /\ ~tplCalls[c].t.noNetwork
    /\ tplCalls[c].t.hash = NoHash \/ Matches(tplCalls[c].t, body)

\* C29: once a call has fetched a body for a URL and written it to the
\* cache, every call for that URL that starts later, with the network
\* allowed and no hash or a matching one, returns that body and sends no
\* request; and no cache entry is written twice.
CacheReuse ==
    /\ \A i, j \in DOMAIN tplLog :
          (/\ i < j
           /\ tplLog[i].what = "write"
           /\ tplLog[j].what = "call"
           /\ tplLog[j].url = tplLog[i].url
           /\ MayReuse(tplLog[j].c, tplLog[i].body))
              => /\ tplCalls[tplLog[j].c].at = "returned"
                 /\ tplCalls[tplLog[j].c].body = tplLog[i].body
                 /\ ~Did(tplLog[j].c, "request")
    /\ \A i, j \in DOMAIN tplLog :
          (i < j /\ tplLog[i].what = "write" /\ tplLog[j].what = "write")
              => tplLog[j].url # tplLog[i].url

(***************************************************************************)
(* C24.  Colour cache consistency: within one render two files with the    *)
(* same non-empty extension have the same fill colour, and extensionless   *)
(* files with different names hold separate slots of the palette scale,    *)
(* taken in the order in which the names were first seen, and are filled   *)
(* with the colours of their slots.                                        *)
(***************************************************************************)
\* the emitted files without an extension, in emission order
PlainFiles == SelectSeq(EmittedFiles, LAMBDA n : tree[n].ext = <<>>)
PlainNames == FirstSeen([i \in DOMAIN PlainFiles |-> tree[PlainFiles[i]].name])
SlotOf(name) == IndexOf(scaleDomain, name)

ColorCacheConsistent ==
    Rendering =>
        /\ \A m, n \in Range(EmittedFiles) :
               (tree[m].ext = tree[n].ext /\ tree[m].ext # <<>>)
                   => FillOf(m) = FillOf(n)
        /\ \A i \in DOMAIN PlainNames : PlainNames[i] \in Range(scaleDomain)
        /\ \A i, j \in DOMAIN PlainNames :
               i < j => SlotOf(PlainNames[i]) < SlotOf(PlainNames[j])
        /\ \A n \in Range(PlainFiles) :
               FillOf(n) = Scheme[((SlotOf(tree[n].name) - 1) % Len(Scheme)) + 1]

\* two extensionless files with different names and different colours
ColorCacheConsistentWitness ==
    /\ pc = "done"
    /\ \E m, n \in Range(PlainFiles) :
           /\ tree[m].name # tree[n].name
           /\ FillOf(m) # FillOf(n)

(***************************************************************************)
(* C25.  No division by zero: every radius emitted in the document, of a   *)
(* fill circle, a rim stroke or a label, is a finite number.               *)
(***************************************************************************)
FiniteRadii ==
    pc = "done" =>
        \A i \in Elements("circle") \cup Elements("dirLabel") \cup Elements("fileLabel") :
            svg[i].r # NaN

(***************************************************************************)
(* C26.  Weight range: the weight of every file lies in [1, 100], 1 for a  *)
(* smallest file and 100 for a largest one when the sizes differ; the      *)
(* scale's domain has sMin >= 1 and sMax >= sMin + 1; and the weight of a  *)
(* directory is the sum of the weights of the files below it, 0 when there *)
(* is none.  Weights are kept multiplied by WeightDen.                     *)
(***************************************************************************)
FilesBelow(i) == { f \in Files(tree) : i \in Ancestors(tree, f) }

RECURSIVE SumOver(_)
SumOver(S) ==
    IF S = {} THEN 0
    ELSE LET f == CHOOSE x \in S : TRUE IN packed[f].value + SumOver(S \ {f})

SizeOf(f) == IF tree[f].size >= 1 THEN tree[f].size ELSE 1

WeightRange ==
    pc = "done" =>
        /\ sMin(tree) >= 1
        /\ sMax(tree) >= sMin(tree) + 1
        /\ \A f \in Files(tree) :
               /\ packed[f].value >= RangeLo * WeightDen(tree)
               /\ packed[f].value <= RangeHi * WeightDen(tree)
               /\ (\A g \in Files(tree) : SizeOf(f) <= SizeOf(g))
                      => packed[f].value = RangeLo * WeightDen(tree)
               /\ (/\ \A g \in Files(tree) : SizeOf(g) <= SizeOf(f)
                   /\ \E g \in Files(tree) : SizeOf(g) < SizeOf(f))
                      => packed[f].value = RangeHi * WeightDen(tree)
        /\ \A i \in Dirs(tree) : packed[i].value = SumOver(FilesBelow(i))

\* two files that weigh the same, one of size 0, widen the domain
WeightRangeWitness ==
    /\ pc = "done"
    /\ \E f \in Files(tree) :
           /\ tree[f].size = 0
           /\ packed[1].value > packed[f].value
    /\ sMax(tree) = sMin(tree) + 1
    /\ SeqMax(FileSizes(tree)) = SeqMin(FileSizes(tree))

(***************************************************************************)
(* C27.  Label threshold: a directory below the root has a rim stroke and  *)
(* a rim label exactly when its radius is greater than 12, and only its    *)
(* fill circle when the radius is 12 or less; a file has a text label      *)
(* exactly when its radius is greater than 12.  Every node below the root  *)
(* has one fill circle.                                                    *)
(***************************************************************************)
ElementsOf(kind, n) == { i \in Elements(kind) : svg[i].node = n }

\* r > 12 and r <= 12 of the node's radius; both are false of NaN
Over12(n) == packed[n].rr # NaN /\ packed[n].rr > 144 * WeightDen(tree)
UpTo12(n) == packed[n].rr # NaN /\ packed[n].rr <= 144 * WeightDen(tree)

LabelThreshold ==
    pc = "done" =>
        /\ \A n \in Dirs(tree) \ {1} :
               /\ Cardinality(ElementsOf("circle", n)) = 1
               /\ Cardinality(ElementsOf("rim", n)) = (IF Over12(n) THEN 1 ELSE 0)
               /\ Cardinality(ElementsOf("dirLabel", n)) = (IF Over12(n) THEN 1 ELSE 0)
               /\ UpTo12(n) =>
                      { i \in DOMAIN svg : svg[i].node = n } = ElementsOf("circle", n)
        /\ \A n \in Files(tree) :
               /\ Cardinality(ElementsOf("circle", n)) = 1
               /\ Cardinality(ElementsOf("fileLabel", n)) = (IF Over12(n) THEN 1 ELSE 0)

\* a directory of radius 12 without a rim around a labelled directory, or a
\* file of radius 12 without a label beside a labelled file
LabelThresholdWitness ==
    /\ pc = "done"
    /\ \E m, n \in DOMAIN tree :
           /\ m # 1
           /\ n # 1
           /\ tree[m].kind = tree[n].kind
           /\ packed[m].rr = 144 * WeightDen(tree)
           /\ { i \in DOMAIN svg : svg[i].node = m } = ElementsOf("circle", m)
           /\ Over12(n)
           /\ ElementsOf("dirLabel", n) \cup ElementsOf("fileLabel", n) # {}

(***************************************************************************)
(* C28.  Rim gap geometry: the stroke-dasharray of every rim stroke, of a  *)
(* directory of radius r > 12 and circumference C, is dash, gap, dash with *)
(* 10 <= gap <= 0.45 * C, dash = (C - gap) / 2 > 0 and                     *)
(* dash + gap + dash = C.                                                  *)
(***************************************************************************)
RimGap ==
    pc = "done" =>
        \A i \in Elements("rim") :
            LET r == packGeom.dirR[svg[i].node]
                C == 314160 * r
                dash == svg[i].text[1]
                gap == svg[i].text[2]
            IN  /\ r > 12
                /\ Len(svg[i].text) = 3
                /\ gap >= 10 * 50000
                /\ 100 * gap <= 45 * C
                /\ svg[i].text[3] = dash
                /\ 2 * dash = C - gap
                /\ dash > 0
                /\ dash + gap + svg[i].text[3] = C

\* a name wider than 0.45 * C: the gap is 0.45 * C
RimGapWitness ==
    /\ pc = "done"
    /\ \E i \in Elements("rim") :
           /\ Len(tree[svg[i].node].name) = MaxNameLen
           /\ 100 * svg[i].text[2] = 45 * 314160 * packGeom.dirR[svg[i].node]

(***************************************************************************)
(* C30.  Scan failure writes nothing: in a run whose target is missing or  *)
(* is not a directory the output directory is never created and no file    *)
(* is written, and the run, once the scan has been tried, has ended with   *)
(* exit code 3.                                                            *)
(***************************************************************************)
ScanFailureWritesNothing ==
    target # "directory" =>
        /\ ~outDirCreated
        /\ written = <<>>
        /\ cliPc \in {"start", "scan", "exited"}
        /\ (cliPc = "exited" /\ ~NoOutputs(cliOptions)) => exitCode = 3

\* a run asked for all three files on a target that is a file
ScanFailureWritesNothingWitness ==
    /\ target = "file"
    /\ cliPc = "exited"
    /\ exitCode = 3
    /\ cliOptions.outputs.svg
    /\ cliOptions.outputs.json
    /\ cliOptions.outputs.html

====
